---- MODULE Spec2Model ----
(***************************************************************************)
(* State-machine model of the BIDS conversion pipeline (bids/src):         *)
(*   - Name Builder and Raw Converter (name_builder.py, dcm2nii_parser.py) *)
(*     run by concurrent jobs over one shared rawdata tree;                *)
(*   - Validator / Separator of the source stage (validator.py,            *)
(*     separator.py, source.py, utils/common.py);                          *)
(*   - Modality Mapper (modality_mapper.py).                               *)
(*                                                                         *)
(* Text is modelled structurally.  In the rawdata tree a file name is the  *)
(* sequence of its '_'-separated parts plus its extension, a part          *)
(* "key-value" being a record whose value is a sequence of one-character   *)
(* strings; in the sourcedata tree a name is the sequence of its           *)
(* characters.  Number formatting and parsing, suffix and stem, sorting    *)
(* and joining are computed on these sequences.                            *)
(*                                                                         *)
(* Specifications: Spec (one job on the rawdata tree), SpecRace (two jobs  *)
(* on one subject and session), SpecSource (validation and separation of   *)
(* one drop), SpecUnits (Separator and Mapper components on their own      *)
(* inputs).                                                                *)
(***************************************************************************)
EXTENDS Integers, Sequences, FiniteSets, TLC

\* ------------------------------------------------------------------ bounds
\* largest number of sets (separated paths) one job carries
MaxSets == 2

\* the worker threads' jobs that run concurrently on one subject/session
Jobs == {"j1", "j2"}

\* ------------------------------------------------------- text primitives
DigitChars == <<"0", "1", "2", "3", "4", "5", "6", "7", "8", "9">>

IsDigit(c) == \E i \in 1..10 : DigitChars[i] = c

DigitVal(c) == (CHOOSE i \in 1..10 : DigitChars[i] = c) - 1

\* Python int(text) on a run token: succeeds on a non-empty all-digit text
IntParses(s) == Len(s) > 0 /\ \A i \in 1..Len(s) : IsDigit(s[i])

RECURSIVE IntParse(_)
IntParse(s) ==
    IF s = <<>> THEN 0
    ELSE 10 * IntParse(SubSeq(s, 1, Len(s) - 1)) + DigitVal(s[Len(s)])

RECURSIVE DecDigits(_)
DecDigits(n) ==
    IF n < 10 THEN <<DigitChars[n + 1]>>
    ELSE Append(DecDigits(n \div 10), DigitChars[(n % 10) + 1])

\* utils/common.py zero_fill: f"{int(num):02d}"
zero_fill(num) ==
    IF num < 10 THEN <<"0">> \o DecDigits(num) ELSE DecDigits(num)

\* a part "key-value" of a file name, and a part without '-'
EntityPart(k, v) == [k |-> k, dash |-> TRUE, v |-> v]
WordPart(w) == [k |-> w, dash |-> FALSE, v |-> <<>>]

\* --------------------------------------------------- job configuration
subject_id == <<"X">>
trial_index == zero_fill(1)

\* BIDS entity/suffix rule table (suffix_map JSON), in declaration order:
\* data type -> modality -> entity flags
suffix_rules ==
    << [data_type |-> "anat", modalities |-> <<[modality |-> "T1w", flags |-> {}]>>],
       [data_type |-> "func", modalities |-> <<[modality |-> "bold", flags |-> {"task", "acq", "dir"}]>>] >>

\* labels the Modality Mapper can hand over ("unknown" is in no rule table)
MapperLabels == {"T1w", "bold", "unknown"}

TaskInfos ==
    { [isFunc |-> TRUE, option |-> "rest"],
      [isFunc |-> TRUE, option |-> ""],
      [isFunc |-> FALSE, option |-> "rest"],
      [isFunc |-> FALSE, option |-> ""] }

\* PhaseEncodingDirection read from the set's first DICOM ("" = not resolvable)
PhaseDirs == {"", "j"}

\* ------------------------------------------------- destination directory
RunFile(runText, modality) ==
    [data_type |-> IF modality = "bold" THEN "func" ELSE "anat",
     parts |-> << EntityPart("sub", subject_id), EntityPart("ses", trial_index),
                  EntityPart("run", runText), WordPart(modality) >>,
     ext |-> ".nii.gz", mtime |-> 0]

\* contents of rawdata/sub-X/ses-01 found when the jobs start
InitialDests ==
    { {},
      { RunFile(<<"0", "1">>, "T1w") },
      { RunFile(<<"0", "7">>, "T1w"), RunFile(<<"x">>, "T1w") },
      { RunFile(<<"3">>, "T1w"), [RunFile(<<"0", "9">>, "T1w") EXCEPT !.ext = ".nii"] },
      { RunFile(<<"0", "2">>, "bold"), RunFile(<<"0", "1">>, "T1w"),
        [RunFile(<<"0", "5">>, "T1w") EXCEPT !.parts = <<WordPart("T1w")>>] } }

VARIABLES
    destFiles,            \* files of the rawdata tree: data_type, parts, ext, mtime
    destDirs,             \* data-type directories that exist
    clock,                \* modification-time source of the file system
    pc,                   \* per job: "mapped", "named", "done", "failed"
    path_mapping,         \* per job: sequence of modality labels, one per set (mapper output)
    task_info,            \* per job: structured_config['task']
    bids_mapping,         \* per job: sequence of destination paths, one per set
    modality_run_counter, \* per job: the in-memory run counter after name building
    seedDest,             \* per job: destination files present when the counter was seeded
    conv_idx,             \* per job: next set to convert
    src2raw,              \* per job: set index -> produced file (ConversionResult)
    conv_log,             \* per job: set index -> how its conversion went
    destManifest          \* per data-type directory: the bdsp_file_list.json written there

jobVars == <<destFiles, destDirs, destManifest, clock, pc, path_mapping, task_info, bids_mapping,
             modality_run_counter, seedDest, conv_idx, src2raw, conv_log>>

VARIABLES
    format,               \* declared format of the drop: "DICOM", "PARREC", "NIFTI"
    content,              \* physical file id -> what its header holds
    fs,                   \* files of the sourcedata tree: [dir, name, id]
    discovery,            \* invalid_data/bdsp_file_list.json as written before validation
    manifest,             \* invalid_data/bdsp_file_list.json as it is now: [index, dir, name]
    manifest_state,       \* what the Validator found of it: "ok", "missing", "unreadable"
    srcPc,                \* create_source_path: "copied", "validated", "separated", "failed"
    vr,                   \* what Validator.run did: "ok", "none" (returned None), "raise"
    vr_list,              \* the sets the Validator returned, in order
    set_manifests,        \* per handled set: the manifest the Separator read
    separated_manifests,  \* per separated set: the manifest separated_walk wrote
    prior                 \* what the run before this one left: [again, fs, sets]

srcVars == <<format, content, fs, discovery, manifest, manifest_state, srcPc, vr, vr_list,
             set_manifests, separated_manifests, prior>>

VARIABLES
    u_kind,               \* component called on its own: "separator", "rule", "mapper"
    u_in,                 \* its input
    u_out,                \* its result
    u_done                \* whether the call has returned

unitVars == <<u_kind, u_in, u_out, u_done>>

VARIABLES
    event_dir,            \* job manifests lying in EVENT_DIR
    working_dir,          \* job manifests lying in WORKING_DIR
    error_dir,            \* files of ERROR_DIR: [file, kind], kind "manifest" or "log"
    processed_files,      \* JSONFileMonitor.processed_files
    json_files,           \* monitor_loop: the files of this round still to look at
    mon_pc,               \* monitor_loop: "scan" (about to list EVENT_DIR) or "submit"
    tasks,                \* calls of process_json_file handed to the pool, in order
    pending               \* manifests the operators have not dropped yet

appVars == <<event_dir, working_dir, error_dir, processed_files, json_files, mon_pc, tasks, pending>>

vars == <<jobVars, srcVars, unitVars, appVars>>

\* ------------------------------------------------------------ Name Builder
DataTypes == {suffix_rules[i].data_type : i \in 1..Len(suffix_rules)}

HasModality(entry, modality) ==
    \E i \in 1..Len(entry.modalities) : entry.modalities[i].modality = modality

\* name_builder.py find_data_type: first data type that lists the modality
find_data_type(modality) ==
    IF \E i \in 1..Len(suffix_rules) : HasModality(suffix_rules[i], modality)
    THEN suffix_rules[CHOOSE i \in 1..Len(suffix_rules) :
                         /\ HasModality(suffix_rules[i], modality)
                         /\ \A h \in 1..(i - 1) : ~HasModality(suffix_rules[h], modality)].data_type
    ELSE ""

\* suffix_rules[data_type][modality]
entity_rules(data_type, modality) ==
    LET entry == suffix_rules[CHOOSE i \in 1..Len(suffix_rules) :
                                 suffix_rules[i].data_type = data_type]
    IN entry.modalities[CHOOSE i \in 1..Len(entry.modalities) :
                           entry.modalities[i].modality = modality].flags

\* glob.glob(target_dir/*_{modality}.nii.gz)
GlobModality(files, data_type, modality) ==
    { f \in files : /\ f.data_type = data_type
                    /\ f.ext = ".nii.gz"
                    /\ Len(f.parts) >= 2
                    /\ f.parts[Len(f.parts)] = WordPart(modality) }

\* the loop over filename.split('_'): the first part "run-<int>", -1 if none
RECURSIVE ExtractRun(_)
ExtractRun(parts) ==
    IF parts = <<>> THEN -1
    ELSE IF Head(parts).k = "run" /\ Head(parts).dash /\ IntParses(Head(parts).v)
         THEN IntParse(Head(parts).v)
         ELSE ExtractRun(Tail(parts))

SetMax(S) == CHOOSE x \in S : \A y \in S : y <= x

\* variant: the destination directory is not looked at
get_base_run_number_one(modality, data_type, dirs, files) == 1

\* variant: counts the matching files instead of taking the largest run
get_base_run_number_count(modality, data_type, dirs, files) ==
    IF data_type \notin dirs THEN 1
    ELSE Cardinality(GlobModality(files, data_type, modality)) + 1

get_base_run_number(modality, data_type, dirs, files) ==
    IF data_type \notin dirs THEN 1
    ELSE LET existing_files == GlobModality(files, data_type, modality)
             run_numbers == {ExtractRun(f.parts) : f \in existing_files} \ {-1}
         IN IF existing_files = {} THEN 1
            ELSE IF run_numbers # {} THEN SetMax(run_numbers) + 1
            ELSE 1

\* variant: the run entity is emitted right after the session
build_bids_filename_run_first(ped, modality, rules, task, run_number) ==
    LET taskBad == "task" \in rules /\ (~task.isFunc \/ task.option = "")
        taskPart == IF "task" \in rules THEN <<EntityPart("task", <<task.option>>)>> ELSE <<>>
        acqPart == IF "acq" \in rules THEN <<EntityPart("acq", <<"%u">>)>> ELSE <<>>
        dirPart == IF "dir" \in rules /\ ped # ""
                   THEN <<EntityPart("dir", <<ped>>)>> ELSE <<>>
    IN [ok |-> ~taskBad,
        parts |-> << EntityPart("sub", subject_id), EntityPart("ses", trial_index),
                     EntityPart("run", run_number) >>
                  \o taskPart \o acqPart \o dirPart \o << WordPart(modality) >>]

\* variant: only the task option is looked at, isFunc is not
build_bids_filename_option_only(ped, modality, rules, task, run_number) ==
    LET taskBad == "task" \in rules /\ task.option = ""
        taskPart == IF "task" \in rules THEN <<EntityPart("task", <<task.option>>)>> ELSE <<>>
        acqPart == IF "acq" \in rules THEN <<EntityPart("acq", <<"%u">>)>> ELSE <<>>
        dirPart == IF "dir" \in rules /\ ped # ""
                   THEN <<EntityPart("dir", <<ped>>)>> ELSE <<>>
    IN [ok |-> ~taskBad,
        parts |-> << EntityPart("sub", subject_id), EntityPart("ses", trial_index) >>
                  \o taskPart \o acqPart \o dirPart
                  \o << EntityPart("run", run_number), WordPart(modality) >>]

\* build_bids_filename: [ok, parts]; ok = FALSE when it raises ValueError
build_bids_filename(ped, modality, rules, task, run_number) ==
    LET taskBad == "task" \in rules /\ (~task.isFunc \/ task.option = "")
        taskPart == IF "task" \in rules THEN <<EntityPart("task", <<task.option>>)>> ELSE <<>>
        acqPart == IF "acq" \in rules THEN <<EntityPart("acq", <<"%u">>)>> ELSE <<>>
        dirPart == IF "dir" \in rules /\ ped # ""
                   THEN <<EntityPart("dir", <<ped>>)>> ELSE <<>>
    IN [ok |-> ~taskBad,
        parts |-> << EntityPart("sub", subject_id), EntityPart("ses", trial_index) >>
                  \o taskPart \o acqPart \o dirPart
                  \o << EntityPart("run", run_number), WordPart(modality) >>]

\* variant: the counter is not advanced
NextRun_stuck(current_run) == current_run

\* line 89: modality_run_counter[modality_key] += 1
NextRun(current_run) == current_run + 1

\* variant: one module-level counter shared by the worker threads
NewRunCounter_shared(j) ==
    LET others == { o \in Jobs \ {j} : TRUE }
        keys == UNION { DOMAIN modality_run_counter[o] : o \in others }
    IN [ k \in keys |->
           SetMax({ modality_run_counter[o][k] :
                      o \in { x \in others : k \in DOMAIN modality_run_counter[x] } }) ]

\* line 43: the counter is a fresh local dictionary of each call
NewRunCounter(j) == [k \in {} |-> 0]

\* the loop of create_bids_mapping from set i on;
\* result [ok, mapping, counter], ok = FALSE when the call raises
RECURSIVE MappingLoop(_, _, _, _, _, _, _, _)
MappingLoop(pm, peds, i, task, dirs, files, counter, acc) ==
    IF i > Len(pm) THEN [ok |-> TRUE, mapping |-> acc, counter |-> counter]
    ELSE
      LET modality == pm[i]
          data_type == find_data_type(modality)
      IN IF data_type = "" THEN [ok |-> FALSE, mapping |-> <<>>, counter |-> counter]
         ELSE
           LET modality_key == <<subject_id, trial_index, data_type, modality>>
               seeded == IF modality_key \in DOMAIN counter THEN counter
                         ELSE [k \in DOMAIN counter \cup {modality_key} |->
                                 IF k = modality_key
                                 THEN get_base_run_number(modality, data_type, dirs, files)
                                 ELSE counter[k]]
               current_run == seeded[modality_key]
               name == build_bids_filename(peds[i], modality,
                                           entity_rules(data_type, modality),
                                           task, zero_fill(current_run))
               bids_path == [data_type |-> data_type, parts |-> name.parts, ext |-> ".nii.gz"]
           IN IF ~name.ok THEN [ok |-> FALSE, mapping |-> <<>>, counter |-> seeded]
              ELSE MappingLoop(pm, peds, i + 1, task, dirs, files,
                               [seeded EXCEPT ![modality_key] = NextRun(current_run)],
                               Append(acc, bids_path))

\* variant: sets of unknown modality are skipped and the others are named
create_bids_mapping_lenient(pm, peds, task, dirs, files, counter) ==
    LET known == SelectSeq(pm, LAMBDA m : \E i \in 1..Len(suffix_rules) :
                                             HasModality(suffix_rules[i], m))
    IN MappingLoop(known, [i \in 1..Len(known) |-> ""], 1, task, dirs, files, counter, <<>>)

\* peds[i]: what get_phase_encoding_direction reads in set i
create_bids_mapping(pm, peds, task, dirs, files, counter) ==
    MappingLoop(pm, peds, 1, task, dirs, files, counter, <<>>)

\* raw.py create_raw_path, step 4: the whole name building of one job
NameBuild(j) ==
    /\ pc[j] = "mapped"
    /\ \E peds \in [1..Len(path_mapping[j]) -> PhaseDirs] :
       LET r == create_bids_mapping(path_mapping[j], peds, task_info[j], destDirs, destFiles,
                                    NewRunCounter(j))
       IN /\ pc' = [pc EXCEPT ![j] = IF r.ok THEN "named" ELSE "failed"]
          /\ bids_mapping' = [bids_mapping EXCEPT ![j] = r.mapping]
          /\ modality_run_counter' = [modality_run_counter EXCEPT ![j] = r.counter]
    /\ seedDest' = [seedDest EXCEPT ![j] = destFiles]
    /\ UNCHANGED <<destFiles, destDirs, destManifest, clock, path_mapping, task_info,
                   conv_idx, src2raw, conv_log>>
    /\ UNCHANGED <<srcVars, unitVars, appVars>>

\* ----------------------------------------------------------- Raw Converter
NameOf(f) == [data_type |-> f.data_type, parts |-> f.parts, ext |-> f.ext]

IsWildcard(part) == part.dash /\ part.v = <<"%u">>

\* glob match of a template (each '%...' token turned into '*') against the
\* parts of a file name; '*' also swallows '_', hence whole further parts
RECURSIVE GlobMatch(_, _)
GlobMatch(pattern, parts) ==
    IF pattern = <<>> THEN parts = <<>>
    ELSE IF parts = <<>> THEN FALSE
    ELSE IF IsWildcard(Head(pattern))
         THEN /\ Head(parts).dash
              /\ Head(parts).k = Head(pattern).k
              /\ \E n \in 1..Len(parts) :
                    GlobMatch(Tail(pattern), SubSeq(parts, n + 1, Len(parts)))
         ELSE Head(parts) = Head(pattern) /\ GlobMatch(Tail(pattern), Tail(parts))

\* variant: .nii.gz and .nii files are searched together
ResolveCandidates_any_ext(files, data_type, pattern) ==
    LET candidates == { f \in files : /\ f.data_type = data_type
                                       /\ f.ext \in {".nii.gz", ".nii"}
                                       /\ GlobMatch(pattern, f.parts) }
    IN { c \in candidates : \A d \in candidates : d.mtime <= c.mtime }

\* _resolve_actual_output: the files it may return (empty: FileNotFoundError)
ResolveCandidates(files, data_type, pattern) ==
    LET matching(ext) == { f \in files : /\ f.data_type = data_type
                                         /\ f.ext = ext
                                         /\ GlobMatch(pattern, f.parts) }
        candidates == IF matching(".nii.gz") # {} THEN matching(".nii.gz")
                      ELSE matching(".nii")
    IN { c \in candidates : \A d \in candidates : d.mtime <= c.mtime }

\* what the external converter substitutes for %u
AcqValue == <<"3">>

\* the file name dcm2niix produces from the template
ToolOutputParts(template) ==
    [ i \in 1..Len(template) |->
        IF IsWildcard(template[i]) THEN EntityPart(template[i].k, AcqValue)
        ELSE template[i] ]

\* the same name with the converter's conflict postfix on its last part
Postfixed(parts) ==
    [ i \in 1..Len(parts) |->
        IF i = Len(parts) THEN [parts[i] EXCEPT !.v = Append(parts[i].v, "a")]
        ELSE parts[i] ]

\* bdsp_walk(raw_path): the manifest lists every file of the directory
\* variant: the manifest written first is kept as it is
bdsp_walk_dest_stale(files, data_type) ==
    IF destManifest[data_type].exists THEN destManifest[data_type]
    ELSE [exists |-> TRUE, files |-> {}]

bdsp_walk_dest(files, data_type) ==
    [exists |-> TRUE, files |-> { NameOf(f) : f \in { g \in files : g.data_type = data_type } }]

\* the converter ran and left no file behind
NoOutput == <<>>

\* how one conversion went: the converter's exit, the file it wrote (if any)
\* and whether _resolve_actual_output found a file
ConvOutcome(exit, wrote, resolved) == [exit |-> exit, wrote |-> wrote, resolved |-> resolved]

\* g with x mapped to v
Put(g, x, v) == [k \in DOMAIN g \cup {x} |-> IF k = x THEN v ELSE g[k]]

\* variant: the first failing set ends the loop
NextAfterFailure_abort(i, n) == n + 1

\* lines 270-272: the exception of one set is logged and the loop continues
NextAfterFailure(i, n) == i + 1

\* process_bids_conversion, one iteration of its loop (DICOM / PAR-REC sets):
\* run_dcm2niix, bdsp_walk on the destination, record the actual path
Convert(j) ==
    /\ pc[j] = "named"
    /\ conv_idx[j] <= Len(bids_mapping[j])
    /\ LET i == conv_idx[j]
           n == Len(bids_mapping[j])
           raw_full_path == bids_mapping[j][i]
           dt == raw_full_path.data_type
           outParts == ToolOutputParts(raw_full_path.parts)
           taken == \E f \in destFiles :
                       NameOf(f) = [data_type |-> dt, parts |-> outParts, ext |-> ".nii.gz"]
       IN /\ destDirs' = destDirs \cup {dt}
          /\ \/ \* dcm2niix exits non-zero: ValueError, the loop continues
                /\ conv_idx' = [conv_idx EXCEPT ![j] = NextAfterFailure(i, n)]
                /\ conv_log' = [conv_log EXCEPT
                                  ![j] = Put(conv_log[j], i, ConvOutcome("nonzero", {}, FALSE))]
                /\ UNCHANGED <<destFiles, destManifest, clock, src2raw>>
             \/ \* dcm2niix exits with 0, having written its output or nothing
                \E written \in { NoOutput, outParts }
                                 \cup (IF taken THEN { Postfixed(outParts) } ELSE {}) :
                  LET newFile == [data_type |-> dt, parts |-> written, ext |-> ".nii.gz",
                                  mtime |-> clock + 1]
                      files2 == IF written = NoOutput THEN destFiles
                                ELSE { f \in destFiles : NameOf(f) # NameOf(newFile) }
                                       \cup { newFile }
                      wrote == IF written = NoOutput THEN {} ELSE { NameOf(newFile) }
                      resolved == ResolveCandidates(files2, dt, raw_full_path.parts)
                  IN /\ destFiles' = files2
                     /\ clock' = IF written = NoOutput THEN clock ELSE clock + 1
                     /\ conv_log' = [conv_log EXCEPT
                                       ![j] = Put(conv_log[j], i,
                                                  ConvOutcome("zero", wrote, resolved # {}))]
                     /\ IF resolved = {}
                        THEN /\ conv_idx' = [conv_idx EXCEPT ![j] = NextAfterFailure(i, n)]
                             /\ UNCHANGED <<destManifest, src2raw>>
                        ELSE /\ conv_idx' = [conv_idx EXCEPT ![j] = i + 1]
                             /\ destManifest' = [destManifest EXCEPT
                                                   ![dt] = bdsp_walk_dest(files2, dt)]
                             /\ \E actual \in resolved :
                                  src2raw' = [src2raw EXCEPT
                                                 ![j] = Put(src2raw[j], i, NameOf(actual))]
    /\ UNCHANGED <<pc, path_mapping, task_info, bids_mapping, modality_run_counter, seedDest>>
    /\ UNCHANGED <<srcVars, unitVars, appVars>>

\* process_bids_conversion returns; create_raw_path hands its result to main
Finish(j) ==
    /\ pc[j] = "named"
    /\ conv_idx[j] > Len(bids_mapping[j])
    /\ pc' = [pc EXCEPT ![j] = "done"]
    /\ UNCHANGED <<destFiles, destDirs, destManifest, clock, path_mapping, task_info,
                   bids_mapping, modality_run_counter, seedDest, conv_idx, src2raw, conv_log>>
    /\ UNCHANGED <<srcVars, unitVars, appVars>>

\* ------------------------------------------------------------ job machine
PathMappings(labels) == UNION { [1..n -> labels] : n \in 1..MaxSets }

DefaultTask == [isFunc |-> FALSE, option |-> ""]

\* some set of the mapping has an entity rule with the task flag
UsesTask(pm) ==
    \E i \in 1..Len(pm) :
        find_data_type(pm[i]) # "" /\ "task" \in entity_rules(find_data_type(pm[i]), pm[i])

NoManifest == [exists |-> FALSE, files |-> {}]

\* the rawdata tree and the transient state of the jobs before name building
TreeInit(running) ==
    /\ destFiles \in InitialDests
    /\ destDirs = {f.data_type : f \in destFiles}
    /\ destManifest = [d \in DataTypes |-> NoManifest]
    /\ clock = 0
    /\ pc = [j \in Jobs |-> IF j \in running THEN "mapped" ELSE "idle"]
    /\ bids_mapping = [j \in Jobs |-> <<>>]
    /\ modality_run_counter = [j \in Jobs |-> [k \in {} |-> 0]]
    /\ seedDest = [j \in Jobs |-> {}]
    /\ conv_idx = [j \in Jobs |-> 1]
    /\ src2raw = [j \in Jobs |-> [k \in {} |-> 0]]
    /\ conv_log = [j \in Jobs |-> [k \in {} |-> 0]]

\* one job on the tree: any mapper output, any task metadata
JobInit ==
    /\ TreeInit({"j1"})
    /\ \E pm \in PathMappings(MapperLabels) :
          path_mapping = [j \in Jobs |-> IF j = "j1" THEN pm ELSE <<>>]
    /\ \E t \in TaskInfos :
          task_info = [j \in Jobs |-> IF j = "j1" THEN t ELSE DefaultTask]

\* mapper outputs of the jobs that share a key
RaceMappings == { <<"T1w">>, <<"T1w", "T1w">>, <<"bold", "T1w">> }

\* two jobs of the worker pool on the same subject and session
RaceInit ==
    /\ TreeInit(Jobs)
    /\ path_mapping \in [Jobs -> RaceMappings]
    /\ task_info = [j \in Jobs |-> [isFunc |-> TRUE, option |-> "rest"]]

\* ------------------------------------------------------ text of file names
\* a name is the sequence of its characters
Uppers == << "A", "B", "C", "D", "E", "F", "G", "H", "I", "J", "K", "L", "M",
             "N", "O", "P", "Q", "R", "S", "T", "U", "V", "W", "X", "Y", "Z" >>

Lowers == << "a", "b", "c", "d", "e", "f", "g", "h", "i", "j", "k", "l", "m",
             "n", "o", "p", "q", "r", "s", "t", "u", "v", "w", "x", "y", "z" >>

lower_char(c) ==
    IF \E i \in 1..26 : Uppers[i] = c
    THEN Lowers[CHOOSE i \in 1..26 : Uppers[i] = c]
    ELSE c

\* str.lower()
lower(s) == [i \in 1..Len(s) |-> lower_char(s[i])]

\* the characters of names in code-point order, as sorted() compares them
CodePoints == <<" ", ".">> \o DigitChars \o Uppers \o <<"_">> \o Lowers \o <<"|">>

Ord(c) == CHOOSE i \in 1..Len(CodePoints) : CodePoints[i] = c

RECURSIVE StrLess(_, _)
StrLess(a, b) ==
    IF b = <<>> THEN FALSE
    ELSE IF a = <<>> THEN TRUE
    ELSE IF Head(a) = Head(b) THEN StrLess(Tail(a), Tail(b))
    ELSE Ord(Head(a)) < Ord(Head(b))

\* str.endswith
endswith(s, tail) ==
    Len(s) >= Len(tail) /\ SubSeq(s, Len(s) - Len(tail) + 1, Len(s)) = tail

\* str.startswith
startswith(s, head) == Len(s) >= Len(head) /\ SubSeq(s, 1, Len(head)) = head

\* str.rfind, 1-based, 0 when absent
rfind(s, c) ==
    IF \E i \in 1..Len(s) : s[i] = c
    THEN CHOOSE i \in 1..Len(s) : s[i] = c /\ \A k \in (i + 1)..Len(s) : s[k] # c
    ELSE 0

\* pathlib suffix: from the last dot, unless the dot leads or ends the name
suffix(name) ==
    LET d == rfind(name, ".")
    IN IF 1 < d /\ d < Len(name) THEN SubSeq(name, d, Len(name)) ELSE <<>>

\* pathlib stem
stem(name) ==
    LET d == rfind(name, ".")
    IN IF 1 < d /\ d < Len(name) THEN SubSeq(name, 1, d - 1) ELSE name

\* str.replace(old, new)
RECURSIVE replace(_, _, _)
replace(s, old, new) ==
    IF Len(s) < Len(old) THEN s
    ELSE IF startswith(s, old)
         THEN new \o replace(SubSeq(s, Len(old) + 1, Len(s)), old, new)
         ELSE <<Head(s)>> \o replace(Tail(s), old, new)

\* "sep".join(names)
RECURSIVE join(_, _)
join(sep, names) ==
    IF names = <<>> THEN <<>>
    ELSE IF Len(names) = 1 THEN names[1]
    ELSE names[1] \o sep \o join(sep, Tail(names))

\* one step of insertion: s is sorted, x goes before the first larger element
RECURSIVE insort(_, _)
insort(s, x) ==
    IF s = <<>> THEN <<x>>
    ELSE IF StrLess(x, Head(s)) THEN <<x>> \o s
    ELSE <<Head(s)>> \o insort(Tail(s), x)

RECURSIVE insertion_sort(_)
insertion_sort(names) ==
    IF names = <<>> THEN <<>>
    ELSE insort(insertion_sort(SubSeq(names, 1, Len(names) - 1)), names[Len(names)])

\* variant: the names keep their manifest order
sorted_asis(names) == names

\* sorted(names)
sorted(names) == insertion_sort(names)

\* the characters of a text run together into one token
RECURSIVE flat(_)
flat(s) == IF s = <<>> THEN "" ELSE Head(s) \o flat(Tail(s))

\* validator.py _sha1: the 16 hex digits, one opaque token per distinct text
\* (the digest is taken to be collision-free)
_sha1(s) == << "sha1:" \o flat(s) >>

\* f"{index:04d}" on the decimal digits of index
RECURSIVE pad(_, _)
pad(digits, width) == IF Len(digits) >= width THEN digits ELSE pad(<<"0">> \o digits, width)

\* ---------------------------------------------------------- sourcedata tree
\* largest number of files in one drop
MaxFiles == 3

Formats == {"DICOM", "PARREC", "NIFTI"}

NoSid == <<>>

InvalidDir == [kind |-> "invalid", sid |-> NoSid]

\* a sub-directory of the drop, copied with it into invalid_data
SubDir == [kind |-> "sub", sid |-> NoSid]

\* valid_data/<set_id>
SetDir(sid) == [kind |-> "set", sid |-> sid]

\* (StudyInstanceUID, SeriesInstanceUID) pairs found in headers
Uid(study, series) == [study |-> study, series |-> series]

NoUid == Uid(<<>>, <<>>)

UidPairs == { Uid(<<"1">>, <<"2", "3">>), Uid(<<"1", "2">>, <<"3">>), Uid(<<"1">>, <<"3">>) }

\* what a file holds: the UID pair its header carries (NoUid: none, or the
\* file cannot be parsed) and whether it passes its format's integrity check
Content(uid, valid) == [uid |-> uid, valid |-> valid]

DotPar == <<".", "p", "a", "r">>
DotRec == <<".", "r", "e", "c">>
DotNii == <<".", "n", "i", "i">>
DotNiiGz == <<".", "n", "i", "i", ".", "g", "z">>
DotJson == <<".", "j", "s", "o", "n">>

\* the files a drop can hold, by format: where they lie and what they are called
Pool ==
    [ d1 |-> [format |-> "DICOM", dir |-> InvalidDir, name |-> <<"a", ".", "d", "c", "m">>],
      d2 |-> [format |-> "DICOM", dir |-> InvalidDir, name |-> <<"b", ".", "d", "c", "m">>],
      d3 |-> [format |-> "DICOM", dir |-> InvalidDir, name |-> <<"c">>],
      d4 |-> [format |-> "DICOM", dir |-> SubDir, name |-> <<"a", ".", "d", "c", "m">>],
      p1 |-> [format |-> "PARREC", dir |-> InvalidDir, name |-> <<"s", ".", "p", "a", "r">>],
      p2 |-> [format |-> "PARREC", dir |-> InvalidDir, name |-> <<"s", ".", "r", "e", "c">>],
      p3 |-> [format |-> "PARREC", dir |-> InvalidDir, name |-> <<"t", ".", "p", "a", "r">>],
      p4 |-> [format |-> "PARREC", dir |-> InvalidDir, name |-> <<"t", ".", "R", "E", "C">>],
      p5 |-> [format |-> "PARREC", dir |-> SubDir, name |-> <<"s", ".", "p", "a", "r">>],
      n1 |-> [format |-> "NIFTI", dir |-> InvalidDir,
              name |-> <<"x", "_", "T", "1", "w", ".", "n", "i", "i">>],
      n2 |-> [format |-> "NIFTI", dir |-> InvalidDir,
              name |-> <<"x", "_", "T", "1", "w", ".", "N", "I", "I">>],
      n3 |-> [format |-> "NIFTI", dir |-> InvalidDir,
              name |-> <<"y", ".", "n", "i", "i", ".", "g", "z">>],
      n4 |-> [format |-> "NIFTI", dir |-> SubDir,
              name |-> <<"x", "_", "T", "1", "w", ".", "n", "i", "i">>],
      n5 |-> [format |-> "NIFTI", dir |-> InvalidDir,
              name |-> <<"x", "_", "T", "1", "w", ".", "j", "s", "o", "n">>] ]

FileIds == DOMAIN Pool

PoolOf(fmt) == { id \in FileIds : Pool[id].format = fmt }

\* what the files of a format can hold
Contents(fmt, id) ==
    IF fmt = "DICOM" THEN { Content(u, TRUE) : u \in UidPairs \cup {NoUid} }
    ELSE IF lower(suffix(Pool[id].name)) \in {DotRec, DotJson}
         THEN { Content(NoUid, TRUE) }
    ELSE { Content(NoUid, v) : v \in BOOLEAN }

\* os.walk listings of a drop: distinct files, the top directory before the
\* sub-directory, any order within a directory; the drop holds the file from
\* whose extension its format was read
\* source.py get_file_format: the format read off the extension of one file
get_file_format(name) ==
    LET file_ext == lower(suffix(name))
    IN IF file_ext \in { <<".", "d", "c", "m">>, <<".", "d", "i", "c", "o", "m">>,
                         <<".", "i", "m", "a">> } THEN "DICOM"
       ELSE IF file_ext \in {DotPar, DotRec} THEN "PARREC"
       ELSE IF file_ext \in { DotNii, <<".", "g", "z">>, <<".", "n", "i", "f", "t", "i">> }
       THEN "NIFTI"
       ELSE "UNKNOWN"

Listings(fmt) ==
    UNION { { l \in [1..n -> PoolOf(fmt)] :
                /\ \E i \in 1..n : get_file_format(Pool[l[i]].name) = fmt
                /\ \A i, k \in 1..n : i # k => l[i] # l[k]
                /\ \A i, k \in 1..n : (i < k /\ Pool[l[k]].dir = InvalidDir)
                                          => Pool[l[i]].dir = InvalidDir } :
            n \in 1..MaxFiles }

\* utils/common.py bdsp_walk: indices 1, 2, ... in listing order
bdsp_walk(listing) ==
    [ i \in 1..Len(listing) |->
        [index |-> i, dir |-> listing[i].dir, name |-> listing[i].name] ]

Exists(files, dir, name) == \E f \in files : f.dir = dir /\ f.name = name

FileAt(files, dir, name) == CHOOSE f \in files : f.dir = dir /\ f.name = name

\* src.rename(dst), shutil.move(src, dst) on OSError, out of invalid_data:
\* [ok, files], ok = FALSE when both raise because src is gone
rename_into(files, name, dir) ==
    IF ~Exists(files, InvalidDir, name) THEN [ok |-> FALSE, files |-> files]
    ELSE LET f == FileAt(files, InvalidDir, name)
         IN [ok |-> TRUE,
             files |-> ({ g \in files : ~(g.dir = dir /\ g.name = name) } \ {f})
                          \cup { [f EXCEPT !.dir = dir] }]

\* the loop "for src in files": stops at the first exception
RECURSIVE move_all(_, _, _)
move_all(files, names, dir) ==
    IF names = <<>> THEN [ok |-> TRUE, files |-> files]
    ELSE LET m == rename_into(files, Head(names), dir)
         IN IF m.ok THEN move_all(m.files, Tail(names), dir) ELSE m

\* groups.setdefault(key, []).append(name) on an insertion-ordered dict
setdefault_append(groups, key, name) ==
    IF \E i \in 1..Len(groups) : groups[i].key = key
    THEN [ i \in 1..Len(groups) |->
             IF groups[i].key = key
             THEN [groups[i] EXCEPT !.files = Append(groups[i].files, name)]
             ELSE groups[i] ]
    ELSE Append(groups, [key |-> key, files |-> <<name>>])

SetPrefix == <<"s", "e", "t", "-">>

\* a Validator's outcome: status "ok" (a list is returned), "none" (None is
\* returned), "raise" (an exception leaves run); the tree; the list
ValidatorResult(status, files, results) ==
    [status |-> status, files |-> files, results |-> results]

\* ---------------------------------------------------------- DicomValidator
\* variant: files are grouped by study alone
GroupKey_study(ds) == Uid(ds.study, <<>>)

\* line 474: the key a readable file is grouped under
GroupKey(ds) == Uid(ds.study, ds.series)

\* lines 456-474: the groups, in first-appearance order of their keys
RECURSIVE DicomGroups(_, _, _, _)
DicomGroups(files, cont, entries, groups) ==
    IF entries = <<>> THEN groups
    ELSE LET cur == Head(entries).name
         IN IF ~Exists(files, InvalidDir, cur)
            THEN DicomGroups(files, cont, Tail(entries), groups)
            ELSE LET ds == cont[FileAt(files, InvalidDir, cur).id].uid
                 IN IF ds.study = <<>> \/ ds.series = <<>>
                    THEN DicomGroups(files, cont, Tail(entries), groups)
                    ELSE DicomGroups(files, cont, Tail(entries),
                                     setdefault_append(groups, GroupKey(ds), cur))

\* variant: the two UIDs are written one after the other
DicomIdentity_glued(key) == key.study \o key.series

\* line 482: f"{study_uid}|{series_uid}"
DicomIdentity(key) == key.study \o <<"|">> \o key.series

dicom_set_id(key) == SetPrefix \o _sha1(DicomIdentity(key))

\* lines 480-496
RECURSIVE DicomMove(_, _, _)
DicomMove(files, groups, results) ==
    IF groups = <<>> THEN ValidatorResult("ok", files, results)
    ELSE LET set_id == dicom_set_id(Head(groups).key)
             m == move_all(files, Head(groups).files, SetDir(set_id))
         IN IF ~m.ok THEN ValidatorResult("raise", m.files, results)
            ELSE DicomMove(m.files, Tail(groups),
                           Append(results, [dir |-> SetDir(set_id), set_id |-> set_id]))

DicomValidator_run(readable, files, cont, entries) ==
    IF ~readable THEN ValidatorResult("none", files, <<>>)
    ELSE LET groups == DicomGroups(files, cont, entries, <<>>)
         IN IF groups = <<>> THEN ValidatorResult("none", files, <<>>)
            ELSE DicomMove(files, groups, <<>>)

\* --------------------------------------------------------- ParrecValidator
\* pairs.setdefault(stem, {'par': None, 'rec': None}) and the assignment
set_pair(pairs, key, suf, name) ==
    LET fresh == [key |-> key, par |-> <<>>, rec |-> <<>>]
        put(p) == IF suf = DotPar THEN [p EXCEPT !.par = name] ELSE [p EXCEPT !.rec = name]
    IN IF \E i \in 1..Len(pairs) : pairs[i].key = key
       THEN [ i \in 1..Len(pairs) |-> IF pairs[i].key = key THEN put(pairs[i]) ELSE pairs[i] ]
       ELSE Append(pairs, put(fresh))

\* lines 518-531
RECURSIVE ParrecPairs(_, _, _)
ParrecPairs(files, entries, pairs) ==
    IF entries = <<>> THEN pairs
    ELSE LET cur == Head(entries).name
             suf == lower(suffix(cur))
         IN IF Exists(files, InvalidDir, cur) /\ (suf = DotPar \/ suf = DotRec)
            THEN ParrecPairs(files, Tail(entries), set_pair(pairs, stem(cur), suf, cur))
            ELSE ParrecPairs(files, Tail(entries), pairs)

\* validate_parrec_files: the REC path is the PAR path with '.par' replaced;
\* the header and size checks are the content's valid flag
validate_parrec_files(files, cont, par_path) ==
    /\ Exists(files, InvalidDir, par_path)
    /\ Exists(files, InvalidDir, replace(par_path, DotPar, DotRec))
    /\ cont[FileAt(files, InvalidDir, par_path).id].valid

\* line 547: f"{par_file.name}|{rec_file.name}"
ParrecIdentity(par, rec) == par \o <<"|">> \o rec

parrec_set_id(par, rec) == SetPrefix \o _sha1(ParrecIdentity(par, rec))

\* lines 533-564
RECURSIVE ParrecMove(_, _, _, _)
ParrecMove(files, cont, pairs, results) ==
    IF pairs = <<>>
    THEN IF results = <<>> THEN ValidatorResult("none", files, <<>>)
         ELSE ValidatorResult("ok", files, results)
    ELSE LET pr == Head(pairs)
         IN IF pr.par = <<>> \/ pr.rec = <<>>
            THEN ParrecMove(files, cont, Tail(pairs), results)
            ELSE IF ~validate_parrec_files(files, cont, pr.par)
            THEN ParrecMove(files, cont, Tail(pairs), results)
            ELSE LET set_id == parrec_set_id(pr.par, pr.rec)
                     m == move_all(files, <<pr.par, pr.rec>>, SetDir(set_id))
                 IN IF ~m.ok THEN ValidatorResult("raise", m.files, results)
                    ELSE ParrecMove(m.files, cont, Tail(pairs),
                                    Append(results, [dir |-> SetDir(set_id),
                                                     set_id |-> set_id]))

ParrecValidator_run(readable, files, cont, entries) ==
    IF ~readable THEN ValidatorResult("none", files, <<>>)
    ELSE ParrecMove(files, cont, ParrecPairs(files, entries, <<>>), <<>>)

\* ---------------------------------------------------------- NiftiValidator
\* line 595: cur.suffix.lower() == '.nii' or name_low.endswith('.nii.gz')
IsNiftiName(name) == lower(suffix(name)) = DotNii \/ endswith(lower(name), DotNiiGz)

\* lines 588-596
RECURSIVE NiftiGroups(_, _, _)
NiftiGroups(files, entries, groups) ==
    IF entries = <<>> THEN groups
    ELSE LET cur == Head(entries).name
         IN IF Exists(files, InvalidDir, cur) /\ IsNiftiName(cur)
            THEN NiftiGroups(files, Tail(entries), setdefault_append(groups, stem(cur), cur))
            ELSE NiftiGroups(files, Tail(entries), groups)

\* validate_nifti_file: the file is there and nibabel loads a sound image
validate_nifti_file(files, cont, nifti_path) ==
    /\ Exists(files, InvalidDir, nifti_path)
    /\ cont[FileAt(files, InvalidDir, nifti_path).id].valid

\* lines 617-618: f"{stem}|{fnames}", fnames the sorted names joined by '|'
NiftiIdentity(key, names) == key \o <<"|">> \o join(<<"|">>, sorted(names))

nifti_set_id(key, names) == SetPrefix \o _sha1(NiftiIdentity(key, names))

\* lines 602-636
RECURSIVE NiftiMove(_, _, _, _)
NiftiMove(files, cont, groups, results) ==
    IF groups = <<>>
    THEN IF results = <<>> THEN ValidatorResult("none", files, <<>>)
         ELSE ValidatorResult("ok", files, results)
    ELSE LET g == Head(groups)
         IN IF \E i \in 1..Len(g.files) : ~validate_nifti_file(files, cont, g.files[i])
            THEN NiftiMove(files, cont, Tail(groups), results)
            ELSE LET set_id == nifti_set_id(g.key, g.files)
                     m == move_all(files, g.files, SetDir(set_id))
                 IN IF ~m.ok THEN ValidatorResult("raise", m.files, results)
                    ELSE NiftiMove(m.files, cont, Tail(groups),
                                   Append(results, [dir |-> SetDir(set_id),
                                                    set_id |-> set_id]))

NiftiValidator_run(readable, files, cont, entries) ==
    IF ~readable THEN ValidatorResult("none", files, <<>>)
    ELSE LET groups == NiftiGroups(files, entries, <<>>)
         IN IF groups = <<>> THEN ValidatorResult("none", files, <<>>)
            ELSE NiftiMove(files, cont, groups, <<>>)

\* source.py _get_pipeline_classes and validator.run()
Validator_run(fmt, readable, files, cont, entries) ==
    IF fmt = "DICOM" THEN DicomValidator_run(readable, files, cont, entries)
    ELSE IF fmt = "PARREC" THEN ParrecValidator_run(readable, files, cont, entries)
    ELSE NiftiValidator_run(readable, files, cont, entries)

\* the entries of a manifest whose files are still where it says, renumbered
rescan(entries, files) ==
    LET stays(e) == Exists(files, e.dir, e.name)
    IN bdsp_walk(SelectSeq(entries, stays))

\* create_source_path, lines 183-197: validation, and on success the refresh
\* of the manifest of invalid_data
Validate ==
    /\ srcPc = "copied"
    /\ \E ms \in {"ok", "missing", "unreadable"} :
          LET r == Validator_run(format, ms = "ok", fs, content, manifest)
              passed == r.status = "ok" /\ r.results # <<>>
          IN /\ manifest_state' = ms
             /\ vr' = r.status
             /\ vr_list' = r.results
             /\ fs' = r.files
             /\ srcPc' = IF passed THEN "validated" ELSE "failed"
             /\ manifest' = IF passed THEN rescan(manifest, r.files) ELSE manifest
    /\ UNCHANGED <<format, content, discovery, set_manifests, separated_manifests, prior>>
    /\ UNCHANGED <<jobVars, unitVars, appVars>>

\* --------------------------------------------------------------- Separators
RECURSIVE insort_index(_, _)
insort_index(s, e) ==
    IF s = <<>> THEN <<e>>
    ELSE IF e.index < Head(s).index THEN <<e>> \o s
    ELSE <<Head(s)>> \o insort_index(Tail(s), e)

\* PreWork._load_json_index: the entries sorted by index (stable)
RECURSIVE _load_json_index(_)
_load_json_index(entries) ==
    IF entries = <<>> THEN <<>>
    ELSE insort_index(_load_json_index(SubSeq(entries, 1, Len(entries) - 1)),
                      entries[Len(entries)])

\* Path.rename inside one directory; an existing target is replaced
rename_within(files, dir, name, new_name) ==
    LET f == FileAt(files, dir, name)
    IN ({ g \in files : ~(g.dir = dir /\ g.name = new_name) } \ {f})
          \cup { [f EXCEPT !.name = new_name] }

ItemPrefix == <<"i", "t", "e", "m", "_">>

\* variant: the number is left out of the name
item_name_unnumbered(sid, number, ext) == ItemPrefix \o sid \o ext

\* f"item_{set_id}_{number}{ext}"
item_name(sid, number, ext) == ItemPrefix \o sid \o <<"_">> \o number \o ext

\* a Separator's outcome: ok = FALSE when run raises
SeparatorResult(ok, files) == [ok |-> ok, files |-> files]

\* variant: the suffix is one more than the manifest index
DicomNumber_next(index) == pad(DecDigits(index + 1), 4)

\* separator.py line 66: f"{index:04d}"
DicomNumber(index) == pad(DecDigits(index), 4)

\* DicomSeparator.run, lines 58-73
RECURSIVE DicomRename(_, _, _)
DicomRename(files, sid, items) ==
    IF items = <<>> THEN files
    ELSE LET src == Head(items).name
         IN IF ~Exists(files, SetDir(sid), src) THEN DicomRename(files, sid, Tail(items))
            ELSE DicomRename(rename_within(files, SetDir(sid), src,
                                           item_name(sid, DicomNumber(Head(items).index),
                                                     suffix(src))),
                             sid, Tail(items))

DicomSeparator_run(files, sid, entries) ==
    LET file_list == _load_json_index(entries)
    IN IF file_list = <<>> THEN SeparatorResult(FALSE, files)
       ELSE SeparatorResult(TRUE, DicomRename(files, sid, file_list))

\* ParrecSeparator.run, lines 129-146
RECURSIVE SeparatorPairs(_, _, _, _)
SeparatorPairs(files, sid, items, pairs) ==
    IF items = <<>> THEN pairs
    ELSE LET src == Head(items).name
             ext == lower(suffix(src))
         IN IF Exists(files, SetDir(sid), src) /\ (ext = DotPar \/ ext = DotRec)
            THEN SeparatorPairs(files, sid, Tail(items), set_pair(pairs, stem(src), ext, src))
            ELSE SeparatorPairs(files, sid, Tail(items), pairs)

\* ParrecSeparator._get_parrec_number
_get_parrec_number(name) ==
    IF lower(suffix(name)) = DotPar THEN <<"0", "0", "0", "1">>
    ELSE IF lower(suffix(name)) = DotRec THEN <<"0", "0", "0", "2">>
    ELSE <<"0", "0", "0", "0">>

\* one "if path and path.exists()" block of lines 155-179
rename_member(files, sid, name, ext) ==
    IF name # <<>> /\ Exists(files, SetDir(sid), name)
    THEN rename_within(files, SetDir(sid), name, item_name(sid, _get_parrec_number(name), ext))
    ELSE files

\* ParrecSeparator.run, lines 150-179
RECURSIVE ParrecRename(_, _, _)
ParrecRename(files, sid, pairs) ==
    IF pairs = <<>> THEN files
    ELSE ParrecRename(rename_member(rename_member(files, sid, Head(pairs).par, DotPar),
                                    sid, Head(pairs).rec, DotRec),
                      sid, Tail(pairs))

ParrecSeparator_run(files, sid, entries) ==
    LET file_list == _load_json_index(entries)
    IN IF file_list = <<>> THEN SeparatorResult(FALSE, files)
       ELSE SeparatorResult(TRUE,
                ParrecRename(files, sid, SeparatorPairs(files, sid, file_list, <<>>)))

\* NiftiSeparator.run lines 234-247: the new name of the single file
nifti_item_name(sid, name) ==
    LET gz == endswith(lower(name), DotNiiGz)
        ext == IF gz THEN DotNiiGz ELSE suffix(name)
        stm == IF gz THEN SubSeq(name, 1, Len(name) - Len(DotNiiGz)) ELSE stem(name)
        u == rfind(stm, "_")
        modality == IF u > 0 THEN SubSeq(stm, u + 1, Len(stm)) ELSE <<"N", "I", "F", "T", "I">>
    IN ItemPrefix \o sid \o <<"_">> \o modality \o <<"_", "0", "0", "0", "1">> \o ext

\* variant: an index of 2 is let through
IndexTooLarge_lax(index) == index > 2

\* separator.py line 227: if index >= 2
IndexTooLarge(index) == index >= 2

\* NiftiSeparator.run, lines 211-258
NiftiSeparator_run(files, sid, entries) ==
    LET file_list == _load_json_index(entries)
    IN IF file_list = <<>> THEN SeparatorResult(FALSE, files)
       ELSE IF Len(file_list) > 1 THEN SeparatorResult(FALSE, files)
       ELSE IF IndexTooLarge(file_list[1].index) THEN SeparatorResult(FALSE, files)
       ELSE IF ~Exists(files, SetDir(sid), file_list[1].name) THEN SeparatorResult(FALSE, files)
       ELSE SeparatorResult(TRUE,
                rename_within(files, SetDir(sid), file_list[1].name,
                              nifti_item_name(sid, file_list[1].name)))

\* source.py _get_pipeline_classes and sep.run(validated_dir, set_id)
Separator_run(fmt, files, sid, entries) ==
    IF fmt = "DICOM" THEN DicomSeparator_run(files, sid, entries)
    ELSE IF fmt = "PARREC" THEN ParrecSeparator_run(files, sid, entries)
    ELSE NiftiSeparator_run(files, sid, entries)

\* the end of the longest run of digits that starts at p (p - 1: none)
DigitsEnd(name, p) ==
    CHOOSE e \in (p - 1)..Len(name) :
        /\ \A k \in p..e : IsDigit(name[k])
        /\ e = Len(name) \/ ~IsDigit(name[e + 1])

\* re.search(r'item_.*?_(\d+)\.', name) finds a match whose '_' is at p
ItemMatchAt(name, s, p) ==
    /\ startswith(SubSeq(name, s, Len(name)), ItemPrefix)
    /\ p >= s + Len(ItemPrefix)
    /\ p < Len(name)
    /\ name[p] = "_"
    /\ DigitsEnd(name, p + 1) >= p + 1
    /\ DigitsEnd(name, p + 1) < Len(name)
    /\ name[DigitsEnd(name, p + 1) + 1] = "."

ItemMatches(name) == \E s, p \in 1..Len(name) : ItemMatchAt(name, s, p)

\* int(match.group(1)) of the leftmost, laziest match
ItemIndex(name) ==
    LET s == CHOOSE a \in 1..Len(name) :
                 /\ \E p \in 1..Len(name) : ItemMatchAt(name, a, p)
                 /\ \A b \in 1..(a - 1) : \A p \in 1..Len(name) : ~ItemMatchAt(name, b, p)
        p == CHOOSE q \in 1..Len(name) :
                 /\ ItemMatchAt(name, s, q)
                 /\ \A r \in 1..(q - 1) : ~ItemMatchAt(name, s, r)
    IN IntParse(SubSeq(name, p + 1, DigitsEnd(name, p + 1)))

\* the sequences that list every element of a finite set once
RECURSIVE Orders(_)
Orders(S) ==
    IF S = {} THEN { <<>> }
    ELSE UNION { { <<x>> \o l : l \in Orders(S \ {x}) } : x \in S }

\* utils/common.py separated_walk: the item files of the directory by index
separated_walk(files, dir) ==
    LET entries == { [index |-> ItemIndex(f.name), dir |-> dir, name |-> f.name] :
                       f \in { g \in files : /\ g.dir = dir
                                             /\ ~endswith(g.name, DotJson)
                                             /\ ItemMatches(g.name) } }
    IN CHOOSE l \in Orders(entries) :
           \A i, k \in 1..Len(l) : i < k => l[i].index <= l[k].index

\* create_source_path, one round of the loop of lines 203-225: the manifest
\* of the set directory is generated, the Separator renames by it, and the
\* manifest of the result is written
SeparateSet ==
    /\ srcPc = "validated"
    /\ LET i == Len(set_manifests) + 1
           set_id == vr_list[i].set_id
           members == { f \in fs : f.dir = SetDir(set_id) }
       IN \E listing \in Orders(members) :
             LET entries == bdsp_walk(listing)
                 sr == Separator_run(format, fs, set_id, entries)
             IN /\ set_manifests' = Append(set_manifests, entries)
                /\ fs' = sr.files
                /\ IF sr.ok
                   THEN /\ separated_manifests' =
                              Append(separated_manifests, separated_walk(sr.files, SetDir(set_id)))
                        /\ srcPc' = IF i = Len(vr_list) THEN "separated" ELSE "validated"
                   ELSE /\ srcPc' = "failed"
                        /\ UNCHANGED separated_manifests
    /\ UNCHANGED <<format, content, discovery, manifest, manifest_state, vr, vr_list, prior>>
    /\ UNCHANGED <<jobVars, unitVars, appVars>>

\* largest drop that is submitted a second time
MaxRerunFiles == 2

\* create_source_path called again with the same drop after a completed run:
\* the directories exist already (mkdir exist_ok), the drop is copied over
\* what invalid_data still holds and the manifest of invalid_data is rewritten,
\* listing the same files as before
Resubmit ==
    /\ srcPc = "separated"
    /\ ~prior.again
    /\ Cardinality(DOMAIN content) <= MaxRerunFiles
    /\ fs' = fs \cup { [id |-> id, dir |-> Pool[id].dir, name |-> Pool[id].name] :
                         id \in DOMAIN content }
    /\ manifest' = discovery
    /\ prior' = [again |-> TRUE, fs |-> fs, sets |-> vr_list]
    /\ manifest_state' = "unread"
    /\ srcPc' = "copied"
    /\ vr' = "pending"
    /\ vr_list' = <<>>
    /\ set_manifests' = <<>>
    /\ separated_manifests' = <<>>
    /\ UNCHANGED <<format, content, discovery>>
    /\ UNCHANGED <<jobVars, unitVars, appVars>>

\* no run came before this one
NoPrior == [again |-> FALSE, fs |-> {}, sets |-> <<>>]

\* the drop copied into invalid_data and listed (lines 173-176)
SourceInit ==
    /\ format \in Formats
    /\ \E listing \in Listings(format) :
          LET ids == { listing[i] : i \in 1..Len(listing) }
          IN /\ fs = { [id |-> id, dir |-> Pool[id].dir, name |-> Pool[id].name] : id \in ids }
             /\ discovery = bdsp_walk([ i \in 1..Len(listing) |-> Pool[listing[i]] ])
             /\ content \in { c \in [ids -> UNION { Contents(format, id) : id \in ids }] :
                                \A id \in ids : c[id] \in Contents(format, id) }
    /\ manifest = discovery
    /\ manifest_state = "unread"
    /\ srcPc = "copied"
    /\ vr = "pending"
    /\ vr_list = <<>>
    /\ set_manifests = <<>>
    /\ separated_manifests = <<>>
    /\ prior = NoPrior

\* no source stage runs
SourceIdle ==
    /\ format = ""
    /\ content = <<>>
    /\ fs = {}
    /\ discovery = <<>>
    /\ manifest = <<>>
    /\ manifest_state = "unread"
    /\ srcPc = "idle"
    /\ vr = "pending"
    /\ vr_list = <<>>
    /\ set_manifests = <<>>
    /\ separated_manifests = <<>>
    /\ prior = NoPrior

\* no job runs on the rawdata tree
JobIdle ==
    /\ destFiles = {}
    /\ destDirs = {}
    /\ destManifest = [d \in DataTypes |-> NoManifest]
    /\ clock = 0
    /\ pc = [j \in Jobs |-> "idle"]
    /\ path_mapping = [j \in Jobs |-> <<>>]
    /\ task_info = [j \in Jobs |-> DefaultTask]
    /\ bids_mapping = [j \in Jobs |-> <<>>]
    /\ modality_run_counter = [j \in Jobs |-> [k \in {} |-> 0]]
    /\ seedDest = [j \in Jobs |-> {}]
    /\ conv_idx = [j \in Jobs |-> 1]
    /\ src2raw = [j \in Jobs |-> [k \in {} |-> 0]]
    /\ conv_log = [j \in Jobs |-> [k \in {} |-> 0]]

\* no component is called on its own
UnitIdle ==
    /\ u_kind = ""
    /\ u_in = <<>>
    /\ u_out = <<>>
    /\ u_done = TRUE

\* ----------------------------------------------------------- Modality Mapper
\* utils/common.py remove_all_whitespace
remove_all_whitespace(text) ==
    LET keep(c) == c # " " IN SelectSeq(text, keep)

\* utils/common.py remove_special_chars: letters, digits, '_' and '-' stay
remove_special_chars(text) ==
    LET keep(c) == \/ IsDigit(c)
                   \/ \E i \in 1..26 : Uppers[i] = c \/ Lowers[i] = c
                   \/ c = "_" \/ c = "-"
    IN SelectSeq(text, keep)

\* line 58: the normalized key of a rule
normalized_key(json_key) == lower(remove_special_chars(remove_all_whitespace(json_key)))

\* lines 56-66 for one rule: some key of it is in the metadata with an
\* accepted value
RuleMatches(rule, metadata) ==
    \E i \in 1..Len(rule) :
        /\ normalized_key(rule[i].key) \in DOMAIN metadata
        /\ metadata[normalized_key(rule[i].key)] \in rule[i].values

\* the loops of lines 53-68 from one table entry on
RECURSIVE determine_from(_, _)
determine_from(items, metadata) ==
    IF items = <<>> THEN "unknown"
    ELSE IF \E r \in 1..Len(Head(items).rules) : RuleMatches(Head(items).rules[r], metadata)
         THEN Head(items).modality
         ELSE determine_from(Tail(items), metadata)

Reverse(s) == [ i \in 1..Len(s) |-> s[Len(s) + 1 - i] ]

\* variant: the table is searched from its last modality
_determine_modality_last(modality_mapping, metadata) ==
    determine_from(Reverse(modality_mapping), metadata)

\* DicomMapper._determine_modality and ParrecMapper._determine_modality
_determine_modality(modality_mapping, metadata) ==
    determine_from(modality_mapping, metadata)

\* str.split(sep) for a one-character separator
RECURSIVE split(_, _)
split(s, sep) ==
    IF \A i \in 1..Len(s) : s[i] # sep THEN <<s>>
    ELSE LET p == CHOOSE i \in 1..Len(s) : s[i] = sep /\ \A k \in 1..(i - 1) : s[k] # sep
         IN <<SubSeq(s, 1, p - 1)>> \o split(SubSeq(s, p + 1, Len(s)), sep)

\* NiftiMapper._extract_modality_from_filename
_extract_modality_from_filename(filename) ==
    LET name_without_ext ==
            IF endswith(filename, DotNiiGz)
            THEN SubSeq(filename, 1, Len(filename) - 7)
            ELSE IF endswith(filename, DotNii)
            THEN SubSeq(filename, 1, Len(filename) - 4)
            ELSE filename
        parts == split(name_without_ext, "_")
    IN IF Len(parts) < 4 THEN "unknown"
       ELSE IF parts[Len(parts)] # <<"0", "0", "0", "1">> THEN "unknown"
       ELSE flat(parts[Len(parts) - 1])

\* which files of a set directory get_path_mapping looks at
MapperReads(fmt, name) ==
    /\ ~endswith(lower(name), DotJson)
    /\ IF fmt = "DICOM"
       THEN endswith(lower(name), <<".", "d", "c", "m">>) \/ \A i \in 1..Len(name) : name[i] # "."
       ELSE IF fmt = "PARREC" THEN endswith(lower(name), DotPar)
       ELSE endswith(lower(name), DotNii) \/ endswith(lower(name), DotNiiGz)

\* the label one file resolves to
FileModality(fmt, modality_mapping, file) ==
    IF fmt = "NIFTI" THEN _extract_modality_from_filename(file.name)
    ELSE _determine_modality(modality_mapping, file.metadata)

\* variant: several labels in one set are never an error
TooManyModalities_never(modalities) == FALSE

\* lines 96, 198, 239: if len(modalities) > 1
TooManyModalities(modalities) == Cardinality(modalities) > 1

\* the loop of get_path_mapping from set i on; ok = FALSE: ValueError
RECURSIVE MapperLoop(_, _, _, _, _)
MapperLoop(fmt, modality_mapping, sets, i, path_map) ==
    IF i > Len(sets) THEN [ok |-> TRUE, mapping |-> path_map]
    ELSE LET read == { f \in sets[i] : MapperReads(fmt, f.name) }
             modalities == { FileModality(fmt, modality_mapping, f) : f \in read }
         IN IF read = {} THEN MapperLoop(fmt, modality_mapping, sets, i + 1, path_map)
            ELSE IF TooManyModalities(modalities) THEN [ok |-> FALSE, mapping |-> <<>>]
            ELSE MapperLoop(fmt, modality_mapping, sets, i + 1,
                            Append(path_map,
                                   [set |-> i,
                                    modality |-> CHOOSE m \in modalities : TRUE]))

\* DicomMapper / ParrecMapper / NiftiMapper .get_path_mapping
get_path_mapping(fmt, modality_mapping, sets) ==
    MapperLoop(fmt, modality_mapping, sets, 1, <<>>)

\* ------------------------------------------- components called on their own
\* largest number of entries in a set manifest handed to the NIfTI Separator
MaxEntries == 2

\* largest index such an entry carries
MaxIndex == 2

\* largest number of rules under one modality of a rule table
MaxRules == 2

UnitSid == SetPrefix \o _sha1(<<"u">>)

\* the files a NIfTI set directory may hold
UnitFiles == { [id |-> id, dir |-> SetDir(UnitSid), name |-> Pool[id].name] : id \in {"n1", "n3"} }

SeparatorInputs ==
    { [files |-> present, entries |-> entries] :
        present \in SUBSET UnitFiles,
        entries \in UNION { [1..n -> { [index |-> x, dir |-> SetDir(UnitSid), name |-> f.name] :
                                         x \in 1..MaxIndex, f \in UnitFiles }] :
                            n \in 0..MaxEntries } }

\* rule-table material: raw JSON keys and the values they accept
KeySeries == <<"S", " ", "D">>
KeyProtocol == <<"P", ".", "N">>

RuleSeries == << [key |-> KeySeries, values |-> {"t1"}] >>
RuleProtocol == << [key |-> KeyProtocol, values |-> {"ep"}] >>
RuleEither == << [key |-> KeySeries, values |-> {"ep"}], [key |-> KeyProtocol, values |-> {"t1"}] >>

RuleLists ==
    UNION { { l \in [1..n -> {RuleSeries, RuleProtocol, RuleEither}] :
                \A i, k \in 1..n : i # k => l[i] # l[k] } : n \in 0..MaxRules }

\* rule tables: one or two modalities in declaration order
RuleTables ==
    { <<[modality |-> m, rules |-> r]>> : m \in {"T1w", "bold"}, r \in RuleLists }
      \cup { <<[modality |-> m[1], rules |-> r1], [modality |-> m[2], rules |-> r2]>> :
               m \in { <<"T1w", "bold">>, <<"bold", "T1w">> }, r1 \in RuleLists, r2 \in RuleLists }

\* metadata of a file under its normalized keys
Metadata(sd, pn) ==
    [ k \in (IF sd = "" THEN {} ELSE { <<"s", "d">> }) \cup (IF pn = "" THEN {} ELSE { <<"p", "n">> })
        |-> IF k = <<"s", "d">> THEN sd ELSE pn ]

Metadatas == { Metadata(sd, pn) : sd \in {"", "t1", "ep"}, pn \in {"", "ep"} }

RuleInputs == { [table |-> t, metadata |-> md] : t \in RuleTables, md \in Metadatas }

\* the table of the mapper runs
MapperTable == << [modality |-> "T1w", rules |-> <<RuleSeries>>],
                  [modality |-> "bold", rules |-> <<RuleProtocol>>] >>

\* what the mapper finds at the path of its rule table
TableFiles == {"ok", "missing", "malformed"}

\* variant: a built-in table stands in for a file that cannot be loaded
_load_modality_mapping_fallback(table_file) == MapperTable

\* _load_modality_mapping: FileNotFoundError and JSONDecodeError give {}
_load_modality_mapping(table_file) == IF table_file = "ok" THEN MapperTable ELSE <<>>

UnitItem(number, ext) == item_name(UnitSid, number, ext)

\* the files a separated set may hold, by format
MapperFiles(fmt) ==
    IF fmt = "DICOM"
    THEN { [name |-> UnitItem(<<"0", "0", "0", "1">>, <<".", "d", "c", "m">>),
            metadata |-> Metadata("t1", "")],
           [name |-> UnitItem(<<"0", "0", "0", "2">>, <<>>), metadata |-> Metadata("", "ep")],
           [name |-> UnitItem(<<"0", "0", "0", "3">>, <<".", "d", "c", "m">>),
            metadata |-> Metadata("", "")],
           [name |-> UnitItem(<<"0", "0", "0", "4">>, <<".", "I", "M", "A">>),
            metadata |-> Metadata("", "ep")] }
    ELSE IF fmt = "PARREC"
    THEN { [name |-> UnitItem(<<"0", "0", "0", "1">>, DotPar), metadata |-> Metadata("t1", "")],
           [name |-> <<"t", ".", "P", "A", "R">>, metadata |-> Metadata("", "ep")],
           [name |-> <<"u", ".", "p", "a", "r">>, metadata |-> Metadata("", "")],
           [name |-> UnitItem(<<"0", "0", "0", "2">>, DotRec), metadata |-> Metadata("", "")] }
    ELSE { [name |-> nifti_item_name(UnitSid, Pool["n1"].name), metadata |-> Metadata("", "")],
           [name |-> nifti_item_name(UnitSid, <<"y", "_", "b", "o", "l", "d", ".", "n", "i", "i",
                                                ".", "g", "z">>),
            metadata |-> Metadata("", "")],
           [name |-> UnitItem(<<"T", "1", "w", "_", "0", "0", "0", "2">>, DotNii),
            metadata |-> Metadata("", "")],
           [name |-> Pool["n1"].name, metadata |-> Metadata("", "")] }

\* those of them whose metadata a rule of the table matches
RawFiles(fmt) == { f \in MapperFiles(fmt) : f.metadata # Metadata("", "") }

\* the template of a set whose rule has the acq flag
ResolveTemplate ==
    << EntityPart("sub", subject_id), EntityPart("ses", trial_index),
       EntityPart("acq", <<"%u">>), EntityPart("run", zero_fill(1)), WordPart("bold") >>

\* a file of rawdata/sub-X/ses-01/func
FuncFile(acq, run, ext, mtime) ==
    [data_type |-> "func",
     parts |-> << EntityPart("sub", subject_id), EntityPart("ses", trial_index),
                  EntityPart("acq", acq), EntityPart("run", zero_fill(run)), WordPart("bold") >>,
     ext |-> ext, mtime |-> mtime]

\* files the destination may hold when the converter has returned
ResolvePool ==
    { FuncFile(<<"3">>, 1, ".nii.gz", 1), FuncFile(<<"4">>, 1, ".nii.gz", 2),
      FuncFile(<<"5">>, 1, ".nii.gz", 2), FuncFile(<<"3">>, 1, ".nii", 3),
      FuncFile(<<"6">>, 1, ".nii", 4), FuncFile(<<"3">>, 2, ".nii.gz", 5),
      [FuncFile(<<"3">>, 1, ".nii.gz", 6) EXCEPT !.data_type = "anat"] }

ResolveInputs ==
    { [files |-> fs0, template |-> ResolveTemplate] : fs0 \in SUBSET ResolvePool }

\* ------------------------------------- validate_parrec_files, steps 2 to 5
\* largest number of rows of the IMAGE INFORMATION section of a PAR file
MaxRows == 2

\* check_header_validity, required_fields
HeaderFields == {"max_slices", "max_dynamics", "max_echoes", "max_phases"}

\* parse_par_header: the fields whose line is in the file, with their numbers
ParHeaders ==
    LET values(f) == IF f = "max_slices" THEN 0..MaxRows
                     ELSE IF f = "max_phases" THEN {0, 1} ELSE {1}
    IN UNION { { h \in [S -> 0..MaxRows] : \A f \in S : h[f] \in values(f) } :
               S \in SUBSET HeaderFields }

\* parse_image_information: the columns of a row the checks read
ParRows ==
    UNION { [1..n -> [index : 0..MaxRows, bit_depth : {8, 16}, recon_x : {1}, recon_y : {1}]] :
            n \in 0..MaxRows }

\* os.path.getsize of the REC file
RecSizes == {1, 2, 4}

ParInputs == { [header |-> h, rows |-> r, rec_size |-> s] :
                 h \in ParHeaders, r \in ParRows, s \in RecSizes }

\* what a check adds to results['errors'] and results['warnings']
Findings(errors, warnings) == [errors |-> errors, warnings |-> warnings]

\* header_info.get(field, default)
get(header_info, field, default) ==
    IF field \in DOMAIN header_info THEN header_info[field] ELSE default

check_header_validity(header_info) ==
    Findings({ <<"header", f>> : f \in { g \in HeaderFields :
                                           \/ g \notin DOMAIN header_info
                                           \/ header_info[g] <= 0 } }, {})

\* the comparison of the row count; the missing-combination warning is left out
check_data_completeness(header_info, image_info) ==
    LET expected_total == get(header_info, "max_slices", 0) * get(header_info, "max_dynamics", 0)
                            * get(header_info, "max_echoes", 1) * get(header_info, "max_phases", 1)
    IN IF Len(image_info) # expected_total THEN Findings({<<"count">>}, {})
       ELSE Findings({}, {})

check_file_size_consistency(image_info, actual_size) ==
    LET first_img == image_info[1]
        bytes_per_pixel == first_img.bit_depth \div 8
        expected_size == first_img.recon_x * first_img.recon_y * Len(image_info) * bytes_per_pixel
    IN IF actual_size # expected_size THEN Findings({<<"size">>}, {}) ELSE Findings({}, {})

\* sorted(indices) != list(range(len(image_info)))
IndicesBroken(image_info) ==
    \E k \in 0..(Len(image_info) - 1) :
        Cardinality({ i \in 1..Len(image_info) : image_info[i].index = k }) # 1

\* variant: a gap in the indices is an error
check_index_continuity_strict(image_info) ==
    IF IndicesBroken(image_info) THEN Findings({<<"index">>}, {}) ELSE Findings({}, {})

check_index_continuity(image_info) ==
    IF IndicesBroken(image_info) THEN Findings({}, {<<"index">>}) ELSE Findings({}, {})

check_metadata_consistency(image_info) ==
    Findings({}, { <<"metadata", field>> : field \in
                     { g \in {"bit_depth", "recon_x", "recon_y"} :
                         Cardinality({ image_info[i][g] : i \in 1..Len(image_info) }) > 1 } })

\* validate_parrec_files on a pair whose two files exist: parsing, the five
\* checks, and valid = no error
validate_parrec_content(par) ==
    IF DOMAIN par.header = {} THEN [valid |-> FALSE, errors |-> {<<"parse header">>}, warnings |-> {}]
    ELSE IF par.rows = <<>> THEN [valid |-> FALSE, errors |-> {<<"parse rows">>}, warnings |-> {}]
    ELSE LET found == << check_header_validity(par.header),
                         check_data_completeness(par.header, par.rows),
                         check_file_size_consistency(par.rows, par.rec_size),
                         check_index_continuity(par.rows),
                         check_metadata_consistency(par.rows) >>
             errors == UNION { found[i].errors : i \in DOMAIN found }
             warnings == UNION { found[i].warnings : i \in DOMAIN found }
         IN [valid |-> errors = {}, errors |-> errors, warnings |-> warnings]

UnitInit ==
    /\ u_done = FALSE
    /\ u_out = <<>>
    /\ \/ u_kind = "separator" /\ u_in \in SeparatorInputs
       \/ u_kind = "rule" /\ u_in \in RuleInputs
       \/ u_kind = "resolve" /\ u_in \in ResolveInputs
       \/ u_kind = "parrec" /\ u_in \in ParInputs
       \/ /\ u_kind = "raw"
          /\ \E fmt \in {"DICOM", "PARREC"}, tf \in TableFiles :
                \E sets \in UNION { [1..n -> SUBSET RawFiles(fmt)] : n \in 1..MaxSets } :
                    u_in = [format |-> fmt, sets |-> sets, table_file |-> tf]
       \/ /\ u_kind = "mapper"
          /\ \E fmt \in Formats :
                \E sets \in UNION { [1..n -> SUBSET MapperFiles(fmt)] : n \in 1..MaxSets } :
                    u_in = [format |-> fmt, sets |-> sets]

\* NiftiSeparator.run on a set directory and its manifest
UnitSeparate ==
    /\ u_kind = "separator" /\ ~u_done
    /\ u_out' = NiftiSeparator_run(u_in.files, UnitSid, u_in.entries)
    /\ u_done' = TRUE
    /\ UNCHANGED <<u_kind, u_in, jobVars, srcVars, appVars>>

\* _determine_modality on one file's metadata
UnitDetermine ==
    /\ u_kind = "rule" /\ ~u_done
    /\ u_out' = _determine_modality(u_in.table, u_in.metadata)
    /\ u_done' = TRUE
    /\ UNCHANGED <<u_kind, u_in, jobVars, srcVars, appVars>>

\* get_path_mapping over the separated sets
UnitMap ==
    /\ u_kind = "mapper" /\ ~u_done
    /\ u_out' = get_path_mapping(u_in.format, MapperTable, u_in.sets)
    /\ u_done' = TRUE
    /\ UNCHANGED <<u_kind, u_in, jobVars, srcVars, appVars>>

\* _resolve_actual_output on a destination directory; ok = FALSE when it
\* raises FileNotFoundError
UnitResolve ==
    /\ u_kind = "resolve" /\ ~u_done
    /\ LET resolved == ResolveCandidates(u_in.files, "func", u_in.template)
       IN IF resolved = {}
          THEN u_out' = [ok |-> FALSE, path |-> NoOutput]
          ELSE \E actual \in resolved : u_out' = [ok |-> TRUE, path |-> actual]
    /\ u_done' = TRUE
    /\ UNCHANGED <<u_kind, u_in, jobVars, srcVars, appVars>>

\* create_raw_path, steps 3 and 4: the mapper is built (loading its table)
\* and run, and the Name Builder is called on its mapping; built = FALSE when
\* create_bids_mapping raises, mapped = FALSE when the mapper does
UnitRaw ==
    /\ u_kind = "raw" /\ ~u_done
    /\ LET modality_mapping == _load_modality_mapping(u_in.table_file)
           m == get_path_mapping(u_in.format, modality_mapping, u_in.sets)
           pm == [ i \in 1..Len(m.mapping) |-> m.mapping[i].modality ]
           b == create_bids_mapping(pm, [ i \in 1..Len(pm) |-> "" ],
                                    [isFunc |-> TRUE, option |-> "rest"], {}, {},
                                    [k \in {} |-> 0])
       IN u_out' = [table |-> modality_mapping, mapped |-> m.ok, mapping |-> m.mapping,
                    built |-> m.ok /\ b.ok]
    /\ u_done' = TRUE
    /\ UNCHANGED <<u_kind, u_in, jobVars, srcVars, appVars>>

\* ParrecValidator.run, lines 542-545, on one pair
UnitParrec ==
    /\ u_kind = "parrec" /\ ~u_done
    /\ u_out' = validate_parrec_content(u_in)
    /\ u_done' = TRUE
    /\ UNCHANGED <<u_kind, u_in, jobVars, srcVars, appVars>>

UnitsNext ==
    UnitSeparate \/ UnitDetermine \/ UnitMap \/ UnitResolve \/ UnitRaw \/ UnitParrec

\* ------------------------------------------------ front end (app.py)
\* largest number of job manifests dropped into EVENT_DIR
MaxManifests == 3

\* largest number of calls handed to the pool
MaxTasks == 4

\* MAX_WORKERS of the configuration
MaxWorkers == 2

Manifests == 1..MaxManifests

\* keyword arguments of the call process.main.main(...) in process_json_file
CallKeywords ==
    { "upload_dir", "backup_dir", "error_dir", "working_dir", "dicom_modality",
      "nifti_modality", "parrec_modality", "suffix_map", "flag_dir",
      "magnetic_strength_field" }

\* keyword parameters of process/main.py main
MainParameters ==
    { "upload_dir", "backup_dir", "error_dir", "working_dir", "dicom_modality",
      "nifti_modality", "parrec_modality", "suffix_map", "flag_dir" }

\* how the call of main can end: a keyword main does not have raises
\* TypeError before any stage runs; otherwise the stages return or raise
MainOutcomes ==
    IF CallKeywords \subseteq MainParameters THEN {"returned", "raised"} ELSE {"raised"}

Task(file, at, result) == [file |-> file, pc |-> at, result |-> result]

\* calls that a worker thread has started and not finished
Running == { t \in 1..Len(tasks) : tasks[t].pc \in {"claimed", "returned", "raised", "handled"} }

\* the pool starts queued calls in the order of submission
NextQueued(t) ==
    /\ t \in 1..Len(tasks)
    /\ tasks[t].pc = "queued"
    /\ \A h \in 1..(t - 1) : tasks[h].pc # "queued"

\* get_json_files: the .json files of EVENT_DIR not in processed_files
get_json_files == { f \in event_dir : f \notin processed_files }

\* variant: the manifest is copied and stays in the directory it came from
AfterMove_copy(dir, file) == dir

\* shutil.move: the file leaves the directory it came from
AfterMove(dir, file) == dir \ {file}

\* variant: the manifest is relocated without the log next to it
move_file_to_error_nolog(dir, file) == dir \cup { [file |-> file, kind |-> "manifest"] }

\* move_file_to_error: the manifest and its <name>_error.log in ERROR_DIR
move_file_to_error(dir, file) ==
    dir \cup { [file |-> file, kind |-> "manifest"], [file |-> file, kind |-> "log"] }

\* an operator drops a job manifest into EVENT_DIR
DropManifest ==
    /\ \E m \in pending :
          /\ pending' = pending \ {m}
          /\ event_dir' = event_dir \cup {m}
    /\ UNCHANGED <<working_dir, error_dir, processed_files, json_files, mon_pc, tasks>>
    /\ UNCHANGED <<jobVars, srcVars, unitVars>>

\* monitor_loop, line 160: json_files = self.get_json_files()
Scan ==
    /\ mon_pc = "scan"
    /\ json_files' = get_json_files
    /\ mon_pc' = "submit"
    /\ UNCHANGED <<event_dir, working_dir, error_dir, processed_files, tasks, pending>>
    /\ UNCHANGED <<jobVars, srcVars, unitVars>>

\* monitor_loop, lines 162-169: one file of the round
Submit ==
    /\ mon_pc = "submit"
    /\ Len(tasks) < MaxTasks
    /\ \E f \in json_files :
          /\ json_files' = json_files \ {f}
          /\ IF f \notin processed_files
             THEN /\ processed_files' = processed_files \cup {f}
                  /\ tasks' = Append(tasks, Task(f, "queued", "none"))
             ELSE UNCHANGED <<processed_files, tasks>>
    /\ UNCHANGED <<event_dir, working_dir, error_dir, mon_pc, pending>>
    /\ UNCHANGED <<jobVars, srcVars, unitVars>>

\* monitor_loop, line 171: the round is over, the loop sleeps and starts again
Sleep ==
    /\ mon_pc = "submit"
    /\ json_files = {}
    /\ mon_pc' = "scan"
    /\ UNCHANGED <<event_dir, working_dir, error_dir, processed_files, json_files, tasks, pending>>
    /\ UNCHANGED <<jobVars, srcVars, unitVars>>

\* process_json_file, lines 119-124: move_file_to_working; when the move
\* fails the call returns through its finally clause
Claim(t) ==
    /\ NextQueued(t)
    /\ Cardinality(Running) < MaxWorkers
    /\ LET f == tasks[t].file
       IN IF f \in event_dir
          THEN /\ event_dir' = AfterMove(event_dir, f)
               /\ working_dir' = working_dir \cup {f}
               /\ tasks' = [tasks EXCEPT ![t] = Task(f, "claimed", "none")]
               /\ UNCHANGED processed_files
          ELSE /\ tasks' = [tasks EXCEPT ![t] = Task(f, "finished", "unclaimed")]
               /\ processed_files' = processed_files \ {f}
               /\ UNCHANGED <<event_dir, working_dir>>
    /\ UNCHANGED <<error_dir, json_files, mon_pc, pending>>
    /\ UNCHANGED <<jobVars, srcVars, unitVars>>

\* process_json_file, lines 127-140: the call of process.main.main
RunMain(t) ==
    /\ t \in 1..Len(tasks)
    /\ tasks[t].pc = "claimed"
    /\ \E outcome \in MainOutcomes :
          tasks' = [tasks EXCEPT ![t] = Task(tasks[t].file, outcome, outcome)]
    /\ UNCHANGED <<event_dir, working_dir, error_dir, processed_files, json_files, mon_pc, pending>>
    /\ UNCHANGED <<jobVars, srcVars, unitVars>>

\* process_json_file, lines 142-148: the except clause
Handle(t) ==
    /\ t \in 1..Len(tasks)
    /\ tasks[t].pc = "raised"
    /\ LET f == tasks[t].file
       IN IF f \in working_dir
          THEN /\ working_dir' = AfterMove(working_dir, f)
               /\ error_dir' = move_file_to_error(error_dir, f)
          ELSE UNCHANGED <<working_dir, error_dir>>
    /\ tasks' = [tasks EXCEPT ![t].pc = "handled"]
    /\ UNCHANGED <<event_dir, processed_files, json_files, mon_pc, pending>>
    /\ UNCHANGED <<jobVars, srcVars, unitVars>>

\* process_json_file, lines 150-152: the finally clause
Finally(t) ==
    /\ t \in 1..Len(tasks)
    /\ tasks[t].pc \in {"returned", "handled"}
    /\ processed_files' = processed_files \ {tasks[t].file}
    /\ tasks' = [tasks EXCEPT ![t].pc = "finished"]
    /\ UNCHANGED <<event_dir, working_dir, error_dir, json_files, mon_pc, pending>>
    /\ UNCHANGED <<jobVars, srcVars, unitVars>>

\* JSONFileMonitor.__init__ and the directories before any manifest arrives
AppInit ==
    /\ event_dir = {}
    /\ working_dir = {}
    /\ error_dir = {}
    /\ processed_files = {}
    /\ json_files = {}
    /\ mon_pc = "scan"
    /\ tasks = <<>>
    /\ pending = Manifests

\* the front end is not running
AppIdle ==
    /\ event_dir = {}
    /\ working_dir = {}
    /\ error_dir = {}
    /\ processed_files = {}
    /\ json_files = {}
    /\ mon_pc = "off"
    /\ tasks = <<>>
    /\ pending = {}

AppNext ==
    \/ DropManifest \/ Scan \/ Submit \/ Sleep
    \/ \E t \in 1..MaxTasks : Claim(t) \/ RunMain(t) \/ Handle(t) \/ Finally(t)

\* the monitor and its workers; no job stage and no component runs on its own
AppStageInit == AppInit /\ JobIdle /\ SourceIdle /\ UnitIdle

SpecApp == AppStageInit /\ [][AppNext]_vars

\* the components start on their inputs; no job and no drop is under way
UnitsInit == UnitInit /\ JobIdle /\ SourceIdle /\ AppIdle

SpecUnits == UnitsInit /\ [][UnitsNext]_vars

SourceNext == Validate \/ SeparateSet

\* one drop enters the source stage
SourceStageInit == SourceInit /\ JobIdle /\ UnitIdle /\ AppIdle

SpecSource == SourceStageInit /\ [][SourceNext]_vars

\* the source stage of a drop, and of the same drop submitted once more
RerunNext == Validate \/ SeparateSet \/ Resubmit

SpecRerun == SourceStageInit /\ [][RerunNext]_vars

Init == JobInit /\ SourceIdle /\ UnitIdle /\ AppIdle

Next == \E j \in Jobs : NameBuild(j) \/ Convert(j) \/ Finish(j)

Spec == Init /\ [][Next]_vars

\* two jobs enter the raw stage together
RaceStageInit == RaceInit /\ SourceIdle /\ UnitIdle /\ AppIdle

SpecRace == RaceStageInit /\ [][Next]_vars

\* no other job is between its name building and the end of its conversions
Alone(j) == \A o \in Jobs \ {j} : pc[o] # "named"

\* the jobs of one subject and session one after the other
SerialNext == \E j \in Jobs : Alone(j) /\ (NameBuild(j) \/ Convert(j) \/ Finish(j))

SpecSerial == RaceStageInit /\ [][SerialNext]_vars

\* =================================================================== claims
Named(j) == pc[j] \in {"named", "done"}

\* the number carried by the run entity of a destination path
IssuedRun(path) == IntParse(path.parts[Len(path.parts) - 1].v)

\* every run-NN found among the files matching *_{modality}.nii.gz
ExistingRuns(files, data_type, modality) ==
    UNION { { IntParse(f.parts[h].v) :
                h \in { i \in 1..Len(f.parts) : /\ f.parts[i].k = "run"
                                                /\ f.parts[i].dash
                                                /\ IntParses(f.parts[i].v) } } :
            f \in { g \in files : /\ g.data_type = data_type
                                  /\ g.ext = ".nii.gz"
                                  /\ Len(g.parts) >= 2
                                  /\ g.parts[Len(g.parts)] = WordPart(modality) } }

LargestExisting(files, data_type, modality) ==
    IF ExistingRuns(files, data_type, modality) = {} THEN 0
    ELSE SetMax(ExistingRuns(files, data_type, modality))

\* how many sets up to set i carry the key of set i
KeyRank(pm, i) == Cardinality({ k \in 1..i : pm[k] = pm[i] })

\* C1: within one job, the sets of one (subject, session, dataType, modality)
\* key get, in mapping order, the run numbers m+1, m+2, ..., m+N, m being the
\* largest run-NN among the destination files matching *_{modality}.nii.gz
\* when the job seeded its counter (0 when there is none).
C1_RunNumbersContiguous ==
    \A j \in Jobs :
        Named(j) =>
            /\ Len(bids_mapping[j]) = Len(path_mapping[j])
            /\ \A i \in 1..Len(bids_mapping[j]) :
                  IssuedRun(bids_mapping[j][i]) =
                      LargestExisting(seedDest[j], bids_mapping[j][i].data_type,
                                      path_mapping[j][i])
                      + KeyRank(path_mapping[j], i)

\* a job with two sets of one key, seeded from an existing run-07: runs 8, 9
C1_Witness ==
    \E j \in Jobs :
        /\ Named(j)
        /\ Len(bids_mapping[j]) = 2
        /\ path_mapping[j][1] = path_mapping[j][2]
        /\ LargestExisting(seedDest[j], "anat", path_mapping[j][1]) = 7
        /\ IssuedRun(bids_mapping[j][1]) = 8
        /\ IssuedRun(bids_mapping[j][2]) = 9

\* C2: the destination paths one job assigns to distinct sets are pairwise
\* distinct, and none is the path of a file that existed when the job's name
\* building ran.
C2_PathsDistinctAndFresh ==
    \A j \in Jobs :
        Named(j) =>
            /\ \A i, k \in 1..Len(bids_mapping[j]) :
                  i # k => bids_mapping[j][i] # bids_mapping[j][k]
            /\ \A i \in 1..Len(bids_mapping[j]) :
                  \A f \in seedDest[j] : NameOf(f) # bids_mapping[j][i]

\* two sets of one key named while files of that key exist
C2_Witness ==
    \E j \in Jobs :
        /\ Named(j)
        /\ Len(bids_mapping[j]) >= 2
        /\ path_mapping[j][1] = path_mapping[j][2]
        /\ GlobModality(seedDest[j], bids_mapping[j][1].data_type, path_mapping[j][1]) # {}

\* the first set of job j that carries the modality
FirstWith(j, modality) ==
    CHOOSE i \in 1..Len(path_mapping[j]) :
        /\ path_mapping[j][i] = modality
        /\ \A k \in 1..(i - 1) : path_mapping[j][k] # modality

Carries(j, modality) == \E i \in 1..Len(path_mapping[j]) : path_mapping[j][i] = modality

\* C3: each job seeds its own counter from its own scan, so two jobs on one
\* key whose scans saw the same matching files (the second scanned before the
\* first wrote) are issued the same run number.
C3_ConcurrentJobsSameRun ==
    \A a, b \in Jobs : \A m \in MapperLabels :
        ( /\ a # b
          /\ Named(a) /\ Named(b)
          /\ Carries(a, m) /\ Carries(b, m)
          /\ GlobModality(seedDest[a], find_data_type(m), m)
               = GlobModality(seedDest[b], find_data_type(m), m) )
        => IssuedRun(bids_mapping[a][FirstWith(a, m)])
             = IssuedRun(bids_mapping[b][FirstWith(b, m)])

\* two concurrent jobs hold the same destination path, and both convert to it
C3_Witness ==
    \E a, b \in Jobs :
        /\ a # b
        /\ pc[a] = "done" /\ pc[b] = "done"
        /\ \E i \in DOMAIN src2raw[a] : \E k \in DOMAIN src2raw[b] :
              bids_mapping[a][i] = bids_mapping[b][k]

\* ------------------------------------------------------ source-stage claims
\* the files of the drop, and where each lay when it was listed
Drop == DOMAIN content

InSet(f) == f.dir.kind = "set"

UidOf(f) == content[f.id].uid

SetMembers(sid) == { f \in fs : f.dir = SetDir(sid) }

\* the names the members of a set had when the Validator moved them
MemberNames(sid) == { Pool[f.id].name : f \in SetMembers(sid) }

\* C4: for DICOM, all files moved into one set directory carry the same
\* (StudyInstanceUID, SeriesInstanceUID) pair, that pair is the one the set's
\* id is derived from, and two files with the same pair are never moved into
\* different set directories.
C4_DicomSetsShareIdentity ==
    format = "DICOM" =>
        /\ \A f, g \in fs : (InSet(f) /\ f.dir = g.dir) => UidOf(f) = UidOf(g)
        /\ \A f \in fs : InSet(f) => f.dir.sid = SetPrefix \o _sha1(UidOf(f).study \o <<"|">>
                                                                   \o UidOf(f).series)
        /\ \A f, g \in fs : (InSet(f) /\ InSet(g) /\ UidOf(f) = UidOf(g)) => f.dir = g.dir

\* a DICOM drop validated into a set of two files and a second set
C4_Witness ==
    /\ format = "DICOM"
    /\ vr = "ok"
    /\ \E f, g, h \in fs : /\ f # g
                           /\ InSet(f) /\ f.dir = g.dir
                           /\ InSet(h) /\ h.dir # f.dir

\* the identity strings of a returned set, read off its members
Identity(sid) ==
    IF format = "DICOM"
    THEN LET u == UidOf(CHOOSE f \in SetMembers(sid) : TRUE) IN <<u.study, u.series>>
    ELSE IF format = "PARREC"
    THEN << CHOOSE n \in MemberNames(sid) : lower(suffix(n)) = DotPar,
            CHOOSE n \in MemberNames(sid) : lower(suffix(n)) = DotRec >>
    ELSE <<stem(CHOOSE n \in MemberNames(sid) : TRUE)>>
            \o (CHOOSE l \in Orders(MemberNames(sid)) :
                   \A i, k \in 1..Len(l) : i < k => StrLess(l[i], l[k]))

\* the ids the Validator's rule gives the identity, taking the names in any order
IdsOfIdentity(sid) ==
    IF format = "DICOM"
    THEN { dicom_set_id(GroupKey(UidOf(f))) : f \in SetMembers(sid) }
    ELSE IF format = "PARREC"
    THEN { parrec_set_id(Identity(sid)[1], Identity(sid)[2]) }
    ELSE { nifti_set_id(Identity(sid)[1], l) : l \in Orders(MemberNames(sid)) }

\* C5: the Set ID of every returned set is the value its identity strings
\* give, whatever the order the names are listed in and whatever else the drop
\* holds, and sets with different identity strings (among them any two
\* different UID pairs) have different Set IDs.
C5_SetIdFromIdentityOnly ==
    /\ \A i \in DOMAIN vr_list :
          SetMembers(vr_list[i].set_id) # {}
              => IdsOfIdentity(vr_list[i].set_id) = { vr_list[i].set_id }
    /\ \A i, k \in DOMAIN vr_list :
          ( /\ SetMembers(vr_list[i].set_id) # {}
            /\ SetMembers(vr_list[k].set_id) # {}
            /\ i # k )
          => vr_list[i].set_id # vr_list[k].set_id
    /\ \A p, q \in UidPairs :
          p # q => dicom_set_id(GroupKey(p)) # dicom_set_id(GroupKey(q))

\* a NIfTI set of two files that the manifest lists in the reverse of their
\* sorted order
C5_Witness ==
    /\ format = "NIFTI"
    /\ vr = "ok"
    /\ \E i \in DOMAIN vr_list :
          /\ Cardinality(MemberNames(vr_list[i].set_id)) = 2
          /\ \E a, b \in DOMAIN discovery :
                /\ a < b
                /\ discovery[a].dir = InvalidDir /\ discovery[b].dir = InvalidDir
                /\ StrLess(discovery[b].name, discovery[a].name)
                /\ {discovery[a].name, discovery[b].name} = MemberNames(vr_list[i].set_id)

\* the files the Validator can resolve: at the top of invalid_data and listed
TopListed ==
    { id \in Drop : /\ Pool[id].dir = InvalidDir
                    /\ \E i \in DOMAIN discovery : discovery[i].name = Pool[id].name }

NamedTop(name) == { id \in TopListed : Pool[id].name = name }

\* the valid sets of the drop, each as the set of its files
ValidSets ==
    IF format = "DICOM"
    THEN { { id \in TopListed : content[id].uid = u } : u \in UidPairs } \ { {} }
    ELSE IF format = "PARREC"
    THEN { pair \in SUBSET TopListed :
             \E p, r \in pair :
                /\ pair = {p, r}
                /\ lower(suffix(Pool[p].name)) = DotPar
                /\ lower(suffix(Pool[r].name)) = DotRec
                /\ stem(Pool[p].name) = stem(Pool[r].name)
                /\ NamedTop(replace(Pool[p].name, DotPar, DotRec)) # {}
                /\ content[p].valid }
    ELSE { g \in { { id \in TopListed : /\ IsNiftiName(Pool[id].name)
                                        /\ stem(Pool[id].name) = stem(Pool[x].name) } :
                   x \in { y \in TopListed : IsNiftiName(Pool[y].name) } } :
             \A id \in g : content[id].valid }

ReturnedSets == { { f.id : f \in SetMembers(vr_list[i].set_id) } : i \in DOMAIN vr_list }

\* C6: the Validator fails, and the source job with it, exactly when the
\* manifest is missing or unreadable or the drop has no valid set; otherwise
\* it returns exactly the valid sets, every other file staying out of them.
C6_FailsExactlyWithoutValidSet ==
    vr # "pending" =>
        /\ (vr # "ok") <=> (manifest_state # "ok" \/ ValidSets = {})
        /\ (vr # "ok") <=> (srcPc = "failed" /\ set_manifests = <<>>)
        /\ vr = "ok" => /\ ReturnedSets = ValidSets
                        /\ \A f \in fs : InSet(f) => \E g \in ValidSets : f.id \in g

\* the same statement for drops in which no two listed files share a name
C6_HoldsWithoutDuplicateNames ==
    (\A i, k \in DOMAIN discovery : i # k => discovery[i].name # discovery[k].name)
        => C6_FailsExactlyWithoutValidSet

\* the index the file had in the manifest written before validation
OriginalIndex(id) ==
    discovery[CHOOSE i \in DOMAIN discovery :
                 discovery[i].dir = Pool[id].dir /\ discovery[i].name = Pool[id].name].index

\* the digits after the last '_' of a separated name
ItemNumber(name) == SubSeq(name, rfind(name, "_") + 1, DigitsEnd(name, rfind(name, "_") + 1))

IsItem(name) == startswith(name, ItemPrefix)

SetIndex(k, id) ==
    set_manifests[k][CHOOSE i \in DOMAIN set_manifests[k] :
                        set_manifests[k][i].name = Pool[id].name].index

C8_NiftiSingleFileInvariant ==
    (u_kind = "separator" /\ u_done) =>
        /\ ( \/ Len(u_in.entries) > 1
             \/ Len(u_in.entries) = 1 /\ u_in.entries[1].index >= 2 )
           => (~u_out.ok /\ u_out.files = u_in.files)
        /\ ( /\ Len(u_in.entries) = 1
             /\ u_in.entries[1].index = 1
             /\ \E f \in u_in.files : f.name = u_in.entries[1].name )
           => /\ u_out.ok
              /\ \E f \in u_in.files : \E g \in u_out.files :
                    /\ f.name = u_in.entries[1].name
                    /\ g.id = f.id /\ g.dir = f.dir
                    /\ IsItem(g.name) /\ ~IsItem(f.name)
                    /\ u_out.files \ {g} = u_in.files \ {f}

\* a manifest whose single entry, of a file that exists, has index 2: refused
C8_Witness ==
    /\ u_kind = "separator" /\ u_done
    /\ Len(u_in.entries) = 1
    /\ u_in.entries[1].index = 2
    /\ \E f \in u_in.files : f.name = u_in.entries[1].name
    /\ ~u_out.ok

\* the modalities of the table with a rule one of whose keys, normalized, is
\* in the metadata with an accepted value
MatchingModalities(table, metadata) ==
    { i \in DOMAIN table :
        \E r \in DOMAIN table[i].rules : \E k \in DOMAIN table[i].rules[r] :
            LET key == table[i].rules[r][k].key
                nk == [ x \in 1..Len(SelectSeq(key, LAMBDA c : c \notin {" ", "."})) |->
                          lower_char(SelectSeq(key, LAMBDA c : c \notin {" ", "."})[x]) ]
            IN /\ nk \in DOMAIN metadata
               /\ metadata[nk] \in table[i].rules[r][k].values }

\* C9: the modality returned is that of the first table entry, in declaration
\* order, that has a matching rule; it is "unknown" when no entry has one.
C9_FirstMatchingModalityWins ==
    (u_kind = "rule" /\ u_done) =>
        LET hits == MatchingModalities(u_in.table, u_in.metadata)
        IN IF hits = {} THEN u_out = "unknown"
           ELSE /\ \E i \in hits : /\ \A h \in hits : i <= h
                                   /\ u_out = u_in.table[i].modality

\* rules of both modalities match the metadata; the one declared first is returned
C9_Witness ==
    /\ u_kind = "rule" /\ u_done
    /\ MatchingModalities(u_in.table, u_in.metadata) = {1, 2}
    /\ u_out = u_in.table[1].modality
    /\ u_out # u_in.table[2].modality

\* the labels the files read in set i resolve to
SetLabels(i) ==
    { FileModality(u_in.format, MapperTable, f) :
        f \in { g \in u_in.sets[i] : MapperReads(u_in.format, g.name) } }

\* C10: when the files read in some set resolve to more than one label
\* ("unknown" included) the mapper raises and returns no mapping; otherwise
\* every set of the mapping has the one label all its files resolve to.
C10_OneModalityPerSet ==
    (u_kind = "mapper" /\ u_done) =>
        IF \E i \in DOMAIN u_in.sets : Cardinality(SetLabels(i)) > 1
        THEN ~u_out.ok /\ u_out.mapping = <<>>
        ELSE /\ u_out.ok
             /\ \A e \in DOMAIN u_out.mapping :
                   SetLabels(u_out.mapping[e].set) = { u_out.mapping[e].modality }
             /\ \A e, d \in DOMAIN u_out.mapping :
                   e # d => u_out.mapping[e].set # u_out.mapping[d].set
             /\ \A i \in DOMAIN u_in.sets :
                   SetLabels(i) # {} => \E e \in DOMAIN u_out.mapping : u_out.mapping[e].set = i

\* a first set with one label and a second whose files resolve to a modality
\* and to unknown: the mapper raises, the first set is not returned either
C10_Witness ==
    /\ u_kind = "mapper" /\ u_done
    /\ Len(u_in.sets) >= 2
    /\ Cardinality(SetLabels(1)) = 1
    /\ Cardinality(SetLabels(2)) = 2
    /\ "unknown" \in SetLabels(2)
    /\ ~u_out.ok

\* ---------------------------------------------------------------- C11
PartKeys(parts) == [ i \in 1..Len(parts) |-> parts[i].k ]

\* the keys of a name for a rule with the given flags, dir emitted or not
ExpectedKeys(flags, withDir, modality) ==
    << "sub", "ses" >>
      \o (IF "task" \in flags THEN << "task" >> ELSE <<>>)
      \o (IF "acq" \in flags THEN << "acq" >> ELSE <<>>)
      \o (IF withDir THEN << "dir" >> ELSE <<>>)
      \o << "run", modality >>

NameWellFormed(path, modality) ==
    LET flags == entity_rules(find_data_type(modality), modality)
        n == Len(path.parts)
    IN /\ path.ext = ".nii.gz"
       /\ path.data_type = find_data_type(modality)
       /\ \E withDir \in (IF "dir" \in flags THEN {TRUE, FALSE} ELSE {FALSE}) :
             PartKeys(path.parts) = ExpectedKeys(flags, withDir, modality)
       /\ \A i \in 1..(n - 1) : path.parts[i].dash /\ path.parts[i].v # <<>>
       /\ ~path.parts[n].dash

\* C11: every name the Name Builder assigns lists its entities in the order
\* sub, ses, [task], [acq], [dir], run, modality suffix and ends in .nii.gz;
\* sub, ses, run and the suffix are always there, task and acq exactly when
\* the modality's rule has the flag, dir only when it has the flag.
C11_EntityOrderFixed ==
    \A j \in Jobs :
        Named(j) =>
            /\ Len(bids_mapping[j]) = Len(path_mapping[j])
            /\ \A i \in 1..Len(bids_mapping[j]) :
                  NameWellFormed(bids_mapping[j][i], path_mapping[j][i])

\* a job named a set with task, acq and dir and a set with none of them
C11_Witness ==
    \E j \in Jobs :
        /\ Named(j)
        /\ \E i, k \in 1..Len(bids_mapping[j]) :
              /\ PartKeys(bids_mapping[j][i].parts) = << "sub", "ses", "task", "acq", "dir", "run", "bold" >>
              /\ PartKeys(bids_mapping[j][k].parts) = << "sub", "ses", "run", "T1w" >>

\* ---------------------------------------------------------------- C12
HasUnknownModality(j) ==
    \E i \in 1..Len(path_mapping[j]) : find_data_type(path_mapping[j][i]) = ""

Built(j) == pc[j] \in {"named", "done", "failed"}

\* C12: a job one of whose sets has a modality missing from the rule table
\* fails at name building, gets no destination path for any set, and writes
\* nothing into the destination tree.
C12_UnknownModalityFailsJob ==
    \A j \in Jobs :
        (Built(j) /\ HasUnknownModality(j)) =>
            /\ pc[j] = "failed"
            /\ bids_mapping[j] = <<>>
            /\ conv_idx[j] = 1
            /\ DOMAIN src2raw[j] = {}
            /\ destFiles = seedDest[j]

\* the unknown modality comes after a set that could have been named
C12_Witness ==
    \E j \in Jobs :
        /\ pc[j] = "failed"
        /\ Len(path_mapping[j]) = 2
        /\ find_data_type(path_mapping[j][1]) # ""
        /\ find_data_type(path_mapping[j][2]) = ""
        /\ bids_mapping[j] = <<>>

\* ---------------------------------------------------------------- C13
TaskParts(path) == { i \in 1..Len(path.parts) : path.parts[i].k = "task" /\ path.parts[i].dash }

DemandsTask(modality) ==
    find_data_type(modality) # "" /\ "task" \in entity_rules(find_data_type(modality), modality)

\* the names of a named job carry task-<option> exactly on the demanding sets
TaskEmitted(j) ==
    \A i \in 1..Len(bids_mapping[j]) :
        IF DemandsTask(path_mapping[j][i])
        THEN /\ TaskParts(bids_mapping[j][i]) = {3}
             /\ bids_mapping[j][i].parts[3].v = << task_info[j].option >>
        ELSE TaskParts(bids_mapping[j][i]) = {}

\* C13 as stated: with a rule that demands task, name building fails exactly
\* when the task option is missing or empty, and emits task-<option>
\* otherwise; without such a rule no task entity is emitted and the task
\* metadata has no influence.
C13_TaskFailsIffOptionEmpty ==
    \A j \in Jobs :
        (Built(j) /\ ~HasUnknownModality(j)) =>
            /\ pc[j] = "failed" <=> (UsesTask(path_mapping[j]) /\ task_info[j].option = "")
            /\ pc[j] # "failed" => TaskEmitted(j)

\* C13 amended: with a rule that demands task, name building fails exactly
\* when isFunc is false or the task option is empty, and emits task-<option>
\* otherwise; without such a rule no task entity is emitted and the task
\* metadata has no influence.
C13_TaskFailsIffNotFuncOrEmpty ==
    \A j \in Jobs :
        (Built(j) /\ ~HasUnknownModality(j)) =>
            /\ pc[j] = "failed" <=>
                  (UsesTask(path_mapping[j]) /\ (~task_info[j].isFunc \/ task_info[j].option = ""))
            /\ pc[j] # "failed" => TaskEmitted(j)

\* a job whose task says isFunc = false with a non-empty option failed on a
\* set that demands task
C13_Witness ==
    \E j \in Jobs :
        /\ pc[j] = "failed"
        /\ ~HasUnknownModality(j)
        /\ UsesTask(path_mapping[j])
        /\ ~task_info[j].isFunc
        /\ task_info[j].option = "rest"

\* ---------------------------------------------------------------- C14
Attempted(j) == DOMAIN conv_log[j]

ConversionFailed(j, i) ==
    i \in Attempted(j) /\ (conv_log[j][i].exit = "nonzero" \/ ~conv_log[j][i].resolved)

\* C14: a set whose converter exits non-zero or whose output is not resolved
\* is left out of the ConversionResult, and every other set of the job is
\* still converted: each set is attempted in turn, and each attempted set is
\* recorded exactly when its own conversion succeeded.
C14_FailedSetDoesNotStopOthers ==
    \A j \in Jobs :
        /\ pc[j] \in {"named", "done"} => Attempted(j) = 1..(conv_idx[j] - 1)
        /\ pc[j] = "done" => Attempted(j) = 1..Len(bids_mapping[j])
        /\ \A i \in Attempted(j) : (i \in DOMAIN src2raw[j]) <=> ~ConversionFailed(j, i)

\* a finished job whose first set failed and whose second set was recorded
C14_Witness ==
    \E j \in Jobs :
        /\ pc[j] = "done"
        /\ Len(bids_mapping[j]) = 2
        /\ conv_log[j][1].exit = "nonzero"
        /\ DOMAIN src2raw[j] = {2}

\* ---------------------------------------------------------------- C15
\* the files of the directory the template matches once every wildcard token
\* is read as '*'
TemplateMatches(ext) ==
    { f \in u_in.files : f.data_type = "func" /\ f.ext = ext /\ GlobMatch(u_in.template, f.parts) }

MostRecentOf(f, S) == f \in S /\ \A d \in S : d.mtime <= f.mtime

\* C15: the resolved file is the most recently modified .nii.gz the template
\* matches; .nii files count only when no .nii.gz matches; with no match at
\* all the resolution fails; the resolved path names a file of the directory.
C15_ResolvesNewestMatch ==
    (u_kind = "resolve" /\ u_done) =>
        /\ TemplateMatches(".nii.gz") # {} =>
              u_out.ok /\ MostRecentOf(u_out.path, TemplateMatches(".nii.gz"))
        /\ (TemplateMatches(".nii.gz") = {} /\ TemplateMatches(".nii") # {}) =>
              u_out.ok /\ MostRecentOf(u_out.path, TemplateMatches(".nii"))
        /\ (TemplateMatches(".nii.gz") = {} /\ TemplateMatches(".nii") = {}) => ~u_out.ok
        /\ u_out.ok => u_out.path \in u_in.files

\* two .nii.gz files and a newer .nii file match; the newer .nii.gz is taken
C15_Witness ==
    /\ u_kind = "resolve" /\ u_done
    /\ Cardinality(TemplateMatches(".nii.gz")) >= 2
    /\ \E f \in TemplateMatches(".nii") : f.mtime > u_out.path.mtime
    /\ u_out.ok
    /\ u_out.path.ext = ".nii.gz"

\* ---------------------------------------------------------------- C16
\* the calls of process_json_file that moved the manifest and went on to main
ProcessedBy(m) ==
    { t \in 1..Len(tasks) :
        /\ tasks[t].file = m
        /\ tasks[t].pc \in {"claimed", "returned", "raised", "handled", "finished"}
        /\ tasks[t].result # "unclaimed" }

\* C16: whatever the interleaving of the monitor loop and the workers, no
\* job manifest is processed by more than one worker.
C16_ManifestProcessedOnce ==
    \A m \in Manifests : Cardinality(ProcessedBy(m)) <= 1

\* two workers process two manifests at once while the monitor is in a round
C16_Witness ==
    /\ mon_pc = "submit"
    /\ \E t1, t2 \in 1..Len(tasks) :
          /\ t1 # t2
          /\ tasks[t1].pc = "claimed"
          /\ tasks[t2].pc \in {"claimed", "raised"}
    /\ \A m \in Manifests : Cardinality(ProcessedBy(m)) = 1

\* ---------------------------------------------------------------- C17
InErrorDir(m, kind) == [file |-> m, kind |-> kind] \in error_dir

TasksOf(m) == { t \in 1..Len(tasks) : tasks[t].file = m }

Wrote(j) == UNION { conv_log[j][i].wrote : i \in Attempted(j) }

SameKey(name, path) ==
    /\ name.data_type = path.data_type
    /\ name.parts[Len(name.parts)] = path.parts[Len(path.parts)]

\* job a had finished its conversions when job b seeded its counters
FinishedBefore(a, b) ==
    /\ pc[a] = "done"
    /\ Named(b)
    /\ Wrote(a) \subseteq { NameOf(f) : f \in seedDest[b] }

\* C18: when the jobs of a key do not overlap, every run number the later job
\* issues for the key is greater than the run number of every file the
\* earlier job wrote, and the later job overwrites none of those files.
C18_SerialJobsNeverReuseRun ==
    \A a, b \in Jobs :
        (a # b /\ FinishedBefore(a, b)) =>
            /\ \A w \in Wrote(a) : \A k \in 1..Len(bids_mapping[b]) :
                  SameKey(w, bids_mapping[b][k]) =>
                      ExtractRun(bids_mapping[b][k].parts) > ExtractRun(w.parts)
            /\ Wrote(a) \cap Wrote(b) = {}
            /\ \A w \in Wrote(a) : \E f \in destFiles : NameOf(f) = w

\* both jobs wrote a file of the same key, one after the other
C18_Witness ==
    \E a, b \in Jobs :
        /\ a # b
        /\ FinishedBefore(a, b)
        /\ pc[b] = "done"
        /\ \E w \in Wrote(a) : \E x \in Wrote(b) :
              /\ w.data_type = x.data_type
              /\ w.parts[Len(w.parts)] = x.parts[Len(x.parts)]
              /\ ExtractRun(x.parts) > ExtractRun(w.parts)

\* ---------------------------------------------------------------- C19
\* the places a file of the drop is found at
PlacesOf(id) == { f \in fs : f.id = id }

\* the directories of the sets the Validator returned
AcceptedDirs == IF vr = "ok" THEN { vr_list[i].dir : i \in DOMAIN vr_list } ELSE {}

\* the file lies where the drop was copied to, under its own name
Untouched(f) == f.dir = Pool[f.id].dir /\ f.name = Pool[f.id].name

\* C19: after the Validator has run, every file of the drop exists exactly
\* once; the files of each accepted set are in that set's directory and not
\* in the input directory; every other file is in the input directory
\* unchanged; whatever the manifest contains.
C19_ValidatorMovesEachFileOnce ==
    vr # "pending" =>
        /\ \A id \in Drop : Cardinality(PlacesOf(id)) = 1
        /\ \A f \in fs : f.dir \in AcceptedDirs \/ Untouched(f)
        /\ vr = "ok" => \A g \in ValidSets : \A id \in g : \A f \in PlacesOf(id) :
                            f.dir \in AcceptedDirs
        /\ \A d \in AcceptedDirs : \E f \in fs : f.dir = d

\* the same statement for drops in which no two listed files share a name
C19_HoldsWithoutDuplicateNames ==
    (\A i, k \in DOMAIN discovery : i # k => discovery[i].name # discovery[k].name)
        => C19_ValidatorMovesEachFileOnce

\* ---------------------------------------------------------------- C20
\* the sets a Separator has been run on, by their place in the Validator's list
Handled == DOMAIN set_manifests

ListedNames(k) == { set_manifests[k][i].name : i \in DOMAIN set_manifests[k] }

NamesIn(sid) == { f.name : f \in SetMembers(sid) }

\* the names a set directory holds after renames that skip a file whose
\* target name is taken
RECURSIVE SkipRename(_, _, _)
SkipRename(names, sid, items) ==
    IF items = <<>> THEN names
    ELSE LET src == Head(items).name
             tgt == item_name(sid, DicomNumber(Head(items).index), suffix(src))
         IN IF src \notin names \/ tgt \in names
            THEN SkipRename(names, sid, Tail(items))
            ELSE SkipRename((names \ {src}) \cup {tgt}, sid, Tail(items))

\* C21: when the target name of a rename already exists in the set directory
\* the Separator leaves the source file and the existing target as they are
\* and goes on with the other files: no file of the directory is replaced,
\* and a DICOM set ends with the names that skipping renames give.
C21_CollisionLeavesBothFiles ==
    \A k \in Handled :
        format \in {"DICOM", "PARREC"} =>
            /\ Cardinality(SetMembers(vr_list[k].set_id)) = Len(set_manifests[k])
            /\ format = "DICOM" =>
                  NamesIn(vr_list[k].set_id)
                      = SkipRename(ListedNames(k), vr_list[k].set_id,
                                   _load_json_index(set_manifests[k]))

\* ---------------------------------------------------------------- C27
\* the names the run before left in a set directory
PriorNames(sid) == { f.name : f \in { g \in prior.fs : g.dir = SetDir(sid) } }

SetIds(list) == { list[i].set_id : i \in DOMAIN list }

\* the second run of the drop is over, and it could read its manifest
RerunOver == prior.again /\ manifest_state = "ok" /\ srcPc \in {"separated", "failed"}

\* C27: the same drop submitted again after a completed run does not fail,
\* is mapped to the same set ids, and leaves every set directory with the
\* file names (and so the number of files) the first run left there.
C27_RerunIsIdempotent ==
    RerunOver =>
        /\ srcPc = "separated"
        /\ SetIds(vr_list) = SetIds(prior.sets)
        /\ \A sid \in SetIds(prior.sets) : NamesIn(sid) = PriorNames(sid)

\* the set ids of the second run are those of the first, whatever else happens
C27_SameSetIds ==
    (prior.again /\ vr = "ok") => SetIds(vr_list) = SetIds(prior.sets)

\* ---------------------------------------------------------------- C22
\* create_raw_path has been run with a rule table that could not be loaded
TableLost == u_kind = "raw" /\ u_done /\ u_in.table_file # "ok"

AllUnknown == \A i \in DOMAIN u_out.mapping : u_out.mapping[i].modality = "unknown"

\* C22 as stated: a missing or malformed rule table degrades to an empty
\* table, every set resolves to unknown, and the run goes through.
C22_LostTableDoesNotFailRun ==
    TableLost => /\ u_out.table = <<>>
                 /\ AllUnknown
                 /\ u_out.mapped /\ u_out.built

\* C22: a missing or malformed rule table degrades to an empty table and the
\* mapper returns without raising, every set it maps resolving to unknown;
\* the Name Builder then raises on the first mapped set, so the run goes
\* through only when the mapper mapped no set at all.
C22_LostTableMapsAllToUnknown ==
    TableLost => /\ u_out.table = <<>>
                 /\ u_out.mapped
                 /\ AllUnknown
                 /\ u_out.built <=> u_out.mapping = <<>>

\* two sets whose files the table would tell apart, mapped without a table
C22_Witness ==
    /\ TableLost
    /\ Len(u_out.mapping) = 2
    /\ ~u_out.built
    /\ get_path_mapping(u_in.format, MapperTable, u_in.sets).ok
    /\ \E i \in 1..2 :
          get_path_mapping(u_in.format, MapperTable, u_in.sets).mapping[i].modality # "unknown"

\* ---------------------------------------------------------------- C23
\* the files the Name Builder of the job could see when it seeded its counters
Seen(j) == { NameOf(f) : f \in seedDest[j] }

\* sets i < k of one job named under the same key
LaterSameKey(j, i, k) ==
    /\ i \in DOMAIN bids_mapping[j] /\ k \in DOMAIN bids_mapping[j]
    /\ i < k
    /\ bids_mapping[j][i].data_type = bids_mapping[j][k].data_type
    /\ bids_mapping[j][i].parts[Len(bids_mapping[j][i].parts)]
          = bids_mapping[j][k].parts[Len(bids_mapping[j][k].parts)]

\* every set converted so far is listed in the manifest of its directory
ManifestCurrent(j) ==
    \A i \in DOMAIN src2raw[j] :
        /\ destManifest[src2raw[j][i].data_type].exists
        /\ src2raw[j][i] \in destManifest[src2raw[j][i].data_type].files

\* C23 as stated: the manifest is regenerated after each set's conversion,
\* and the run seeding for the later sets of the job has seen the file that
\* conversion wrote.
C23_SeedingSeesWrittenFile ==
    \A j \in Jobs :
        /\ ManifestCurrent(j)
        /\ \A i \in Attempted(j) :
              (\E k \in DOMAIN bids_mapping[j] : k > i) => conv_log[j][i].wrote \subseteq Seen(j)

\* C23: the manifest of the destination directory is regenerated after each
\* conversion that produced its file; the names of all sets of the job, and
\* with them the seeding of its counters, are fixed before its first
\* conversion, so the seeding has seen none of the files the job writes, and
\* a later set of the same key gets its greater run number from the counter
\* kept in memory.
C23_SeedingPrecedesConversions ==
    \A j \in Jobs :
        /\ ManifestCurrent(j)
        /\ Attempted(j) # {} => /\ Named(j)
                                /\ Len(bids_mapping[j]) = Len(path_mapping[j])
        /\ \A i \in Attempted(j) : conv_log[j][i].wrote \cap Seen(j) = {}
        /\ \A i, k \in DOMAIN bids_mapping[j] :
              LaterSameKey(j, i, k) =>
                  ExtractRun(bids_mapping[j][k].parts) > ExtractRun(bids_mapping[j][i].parts)

\* the first of two sets of one key has been converted and is in the manifest
C23_Witness ==
    \E j \in Jobs : \E i, k \in DOMAIN bids_mapping[j] :
        /\ LaterSameKey(j, i, k)
        /\ i \in DOMAIN src2raw[j]
        /\ conv_log[j][i].wrote # {}
        /\ src2raw[j][i] \in destManifest[src2raw[j][i].data_type].files
        /\ conv_idx[j] = k

\* ---------------------------------------------------------------- C24
\* calls handed to the pool that no worker has started
Queued == { t \in 1..Len(tasks) : tasks[t].pc = "queued" }

\* calls whose worker has moved the manifest
Started == { t \in 1..Len(tasks) : tasks[t].pc # "queued" /\ tasks[t].result # "unclaimed" }

\* C24 as stated: a manifest has been moved from the inbound directory into
\* the working directory before its job is submitted to the worker pool.
C24_MovedBeforeSubmitted ==
    \A t \in 1..Len(tasks) : tasks[t].file \notin event_dir

\* C24: the monitor submits a job while its manifest is still in the inbound
\* directory, having put the file name into processed_files; the move into
\* the working directory is the first step of the worker, so a manifest is
\* out of the inbound directory exactly from the start of its worker call.
C24_WorkerMovesAfterSubmit ==
    /\ \A t \in Queued : /\ tasks[t].file \in event_dir
                         /\ tasks[t].file \notin working_dir
                         /\ tasks[t].file \in processed_files
    /\ \A t \in Started : tasks[t].file \notin event_dir
    /\ \A m \in working_dir : \E t \in Started : tasks[t].file = m

\* one job waits in the pool with its manifest in the inbound directory
\* while the worker of another has moved its manifest
C24_Witness ==
    \E q \in Queued : \E s \in Started :
        /\ tasks[q].file \in event_dir
        /\ tasks[s].pc = "claimed"
        /\ tasks[s].file \in working_dir

\* ---------------------------------------------------------------- C25
\* dcm2nii_parser.py line 134: the extensions of the files that go with an image
SidecarExts == { DotJson, <<".", "b", "v", "a", "l">>, <<".", "b", "v", "e", "c">> }

\* line 132: the name of an image without its .nii or .nii.gz
ImageBase(name) ==
    IF endswith(name, DotNiiGz) THEN SubSeq(name, 1, Len(name) - Len(DotNiiGz))
    ELSE IF endswith(name, DotNii) THEN SubSeq(name, 1, Len(name) - Len(DotNii))
    ELSE name

\* the files of the drop that lie next to image f under its stem
SidecarsOf(f) ==
    { id \in Drop : /\ suffix(Pool[id].name) \in SidecarExts
                    /\ Pool[id].dir = Pool[f.id].dir
                    /\ stem(Pool[id].name) = ImageBase(Pool[f.id].name) }

\* C25: once the sets of a NIfTI drop are separated, every sidecar lying next
\* to an accepted image under the image's stem is in the image's set
\* directory, where the conversion looks for it.
C25_SidecarsTravelWithImage ==
    (format = "NIFTI" /\ srcPc = "separated") =>
        \A f \in fs : (f.dir \in AcceptedDirs /\ IsNiftiName(Pool[f.id].name)) =>
            \A id \in SidecarsOf(f) : \E g \in PlacesOf(id) : g.dir = f.dir

\* ---------------------------------------------------------------- C26
\* the pair under validation and the verdict on it
Pair == u_in
Accepted == u_out.valid

\* every required header field is there and positive
HeaderSound ==
    \A f \in HeaderFields : f \in DOMAIN Pair.header /\ Pair.header[f] > 0

\* as many rows as slices x dynamics x echoes x phases
RowCountSound ==
    /\ HeaderSound
    /\ Len(Pair.rows) = Pair.header["max_slices"] * Pair.header["max_dynamics"]
                          * Pair.header["max_echoes"] * Pair.header["max_phases"]

\* the REC file has the size computed from the first row
RecSizeSound ==
    /\ Pair.rows # <<>>
    /\ Pair.rec_size = Pair.rows[1].recon_x * Pair.rows[1].recon_y * Len(Pair.rows)
                         * (Pair.rows[1].bit_depth \div 8)

\* the indices of the rows are 0, 1, .., n-1 in some order
IndicesContinuous ==
    { Pair.rows[i].index : i \in 1..Len(Pair.rows) } = 0..(Len(Pair.rows) - 1)

\* all rows have one bit depth and one resolution
RowsHomogeneous ==
    \A i, k \in 1..Len(Pair.rows) :
        /\ Pair.rows[i].bit_depth = Pair.rows[k].bit_depth
        /\ Pair.rows[i].recon_x = Pair.rows[k].recon_x
        /\ Pair.rows[i].recon_y = Pair.rows[k].recon_y

\* C26 as stated: a PAR/REC pair is accepted exactly when it passes all five
\* structural checks.
C26_AcceptedIffAllChecksPass ==
    (u_kind = "parrec" /\ u_done) =>
        (Accepted <=> /\ HeaderSound /\ RowCountSound /\ RecSizeSound
                      /\ IndicesContinuous /\ RowsHomogeneous)

\* C26: a PAR/REC pair is accepted exactly when its header fields are present
\* and positive, its row count equals the product and the REC size matches;
\* broken index continuity and differing bit depths are recorded as warnings
\* and do not decide.
C26_AcceptedIffNoError ==
    (u_kind = "parrec" /\ u_done) =>
        /\ Accepted <=> (HeaderSound /\ RowCountSound /\ RecSizeSound)
        /\ Accepted => /\ (<<"index">> \in u_out.warnings) <=> ~IndicesContinuous
                       /\ (u_out.warnings \ {<<"index">>} # {}) <=> ~RowsHomogeneous

\* an accepted pair whose indices have a gap and whose rows differ in bit depth
C26_Witness ==
    /\ u_kind = "parrec" /\ u_done
    /\ Accepted
    /\ ~IndicesContinuous /\ ~RowsHomogeneous
    /\ Len(Pair.rows) = MaxRows

\* ---------------------------------------------------------------- C28
\* the last underscore-separated token of the stem of an image name
LastToken(name) ==
    LET stm == IF endswith(lower(name), DotNiiGz)
               THEN SubSeq(name, 1, Len(name) - Len(DotNiiGz))
               ELSE stem(name)
        parts == split(stm, "_")
    IN flat(parts[Len(parts)])

\* the images the NIfTI Separator has renamed
RenamedImages ==
    { f \in fs : f.dir \in AcceptedDirs /\ ItemMatches(f.name) /\ f.name # Pool[f.id].name }

\* C28: for every image the NIfTI Separator has renamed, the modality the
\* NIfTI Mapper extracts from the separated name is the last
\* underscore-separated token of the stem of the original name.
C28_MapperRecoversLastToken ==
    (format = "NIFTI" /\ srcPc = "separated") =>
        \A f \in RenamedImages :
            _extract_modality_from_filename(f.name) = LastToken(Pool[f.id].name)

\* the same statement for names with a lower-case extension and an underscore
\* in the stem
C28_HoldsForLowerCaseUnderscored ==
    (format = "NIFTI" /\ srcPc = "separated") =>
        \A f \in RenamedImages :
            ( /\ suffix(Pool[f.id].name) = lower(suffix(Pool[f.id].name))
              /\ \E i \in 1..Len(stem(Pool[f.id].name)) : stem(Pool[f.id].name)[i] = "_" )
            => _extract_modality_from_filename(f.name) = LastToken(Pool[f.id].name)

\* ---------------------------------------------------------------- C29
\* the sets handed to the mapper that hold a file whose extension the format
\* detection takes for the format of the job
SetsOfTheFormat ==
    { i \in DOMAIN u_in.sets : \E f \in u_in.sets[i] : get_file_format(f.name) = u_in.format }

\* the sets the returned mapping has a label for
MappedSets == { u_out.mapping[e].set : e \in DOMAIN u_out.mapping }

\* C29: when the Modality Mapper returns without raising, every set directory
\* holding a file of an extension the format detection accepts has a label in
\* the returned mapping.
C29_NoSetSilentlyDropped ==
    (u_kind = "mapper" /\ u_done /\ u_out.ok) => SetsOfTheFormat \subseteq MappedSets

\* ---------------------------------------------------------------- C30
\* the sets of job j that have an entry in its ConversionResult
Converted(j) == DOMAIN src2raw[j]

============================================================================
